---------------------------- MODULE Spec2Model ----------------------------
(***************************************************************************)
(* Model of the quantum_engine package: the engine of                      *)
(* hamiltonian_trading.py (TradingParameters, QuantumTradingHamiltonian)   *)
(* and the optimizer of gradient_optimizer.py (QuantumGradientOptimizer).  *)
(*                                                                         *)
(* Numbers.  The program computes in IEEE double precision.  The model     *)
(* computes in decimal floating point with a six-digit mantissa: a number  *)
(* is a pair <<m, e>> standing for m * 10^e, with 10^5 <= |m| < 10^6, or   *)
(* <<0, 0>>.  Every arithmetic operator rounds its result toward zero to   *)
(* six digits, as every double operation rounds to 53 bits.  The relative  *)
(* spacing of the model's numbers at 1.0 is 10^-5 where a double's is      *)
(* 2^-52.                                                                  *)
(***************************************************************************)
EXTENDS Integers, Sequences, FiniteSets, TLC

\* ------------------------------------------------------------------------
\* Decimal floating point
\* ------------------------------------------------------------------------

MantMax == 1000 * 1000
MantMin == 100 * 1000
Thousand == 10 * 100

IAbs(n) == IF n < 0 THEN -n ELSE n
ISgn(n) == IF n < 0 THEN -1 ELSE IF n > 0 THEN 1 ELSE 0
TruncDiv(n, d) == IF n >= 0 THEN n \div d ELSE -((-n) \div d)
IMax(a, b) == IF a >= b THEN a ELSE b
IMin(a, b) == IF a <= b THEN a ELSE b

RECURSIVE Pow10(_)
Pow10(k) == IF k = 0 THEN 1 ELSE 10 * Pow10(k - 1)

\* Round m * 10^e to a six-digit mantissa (toward zero).
RECURSIVE FNorm(_, _)
FNorm(m, e) ==
    IF m = 0 THEN <<0, 0>>
    ELSE IF m >= MantMax \/ -m >= MantMax THEN FNorm(TruncDiv(m, 10), e + 1)
    ELSE IF m < MantMin /\ -m < MantMin THEN FNorm(m * 10, e - 1)
    ELSE <<m, e>>

\* The literal m * 10^e, e.g. Dec(1, -2) is 0.01.
Dec(m, e) == FNorm(m, e)

FZero == <<0, 0>>
FOne == <<MantMin, -5>>
FTwo == <<2 * MantMin, -5>>
FHalf == <<5 * MantMin, -6>>

\* A component that is not a number (IEEE NaN): every comparison with it is
\* false and every sum or product with it is NaN.
FNaN == <<0, 1>>

FNeg(x) == <<-x[1], x[2]>>
FAbs(x) == <<IAbs(x[1]), x[2]>>

\* big + small where the exponents differ by d: big keeps g guard digits.
FAddGuard(big, small, d, g) ==
    FNorm(big[1] * Pow10(g) + TruncDiv(small[1], Pow10(d - g)), big[2] - g)

\* big + small for big[2] >= small[2], neither zero.
FAddOrdered(big, small) ==
    IF big[2] - small[2] > 9 THEN big
    ELSE FAddGuard(big, small, big[2] - small[2], IMin(big[2] - small[2], 3))

FAdd(x, y) ==
    IF x[1] = 0 THEN y
    ELSE IF y[1] = 0 THEN x
    ELSE FAddOrdered(IF x[2] >= y[2] THEN x ELSE y,
                     IF x[2] >= y[2] THEN y ELSE x)

FSub(x, y) == FAdd(x, <<-y[1], y[2]>>)

\* s * (a1 * 1000 + a0) * (b1 * 1000 + b0) * 10^(e-5): the exact 12-digit
\* product of two mantissas, cut to 7 digits.
FMulParts(s, a1, a0, b1, b0, e) ==
    FNorm(s * (a1 * b1 * 10 + ((a1 * b0 + a0 * b1) * Thousand + a0 * b0) \div MantMin), e)

FMulAbs(s, a, b, e) ==
    FMulParts(s, a \div Thousand, a % Thousand, b \div Thousand, b % Thousand, e)

\* x * y
FMul(x, y) ==
    IF x[1] = 0 \/ y[1] = 0 THEN FZero
    ELSE FMulAbs(IF (x[1] < 0) = (y[1] < 0) THEN 1 ELSE -1,
                 IAbs(x[1]), IAbs(y[1]), x[2] + y[2] + 5)

\* floor(q * 10^k + r * 10^k / b) by long division, one digit a step.
RECURSIVE LongDiv(_, _, _, _)
LongDiv(q, r, b, k) ==
    IF k = 0 THEN q
    ELSE LongDiv(q * 10 + (r * 10) \div b, (r * 10) % b, b, k - 1)

FDivAbs(s, a, b, e) == FNorm(s * LongDiv(a \div b, a % b, b, 6), e)

\* x / y for y # 0.
FDiv(x, y) ==
    IF x[1] = 0 THEN FZero
    ELSE FDivAbs(IF (x[1] < 0) = (y[1] < 0) THEN 1 ELSE -1,
                 IAbs(x[1]), IAbs(y[1]), x[2] - y[2] - 6)

\* Newton's iteration for floor(sqrt(m * 10^6)), from a start y above the
\* root; y2 is the iterate after y.
RECURSIVE SqrtIter(_, _, _)
SqrtIter(m, y, y2) ==
    IF y2 >= y THEN y
    ELSE SqrtIter(m, y2, (y2 + LongDiv(m \div y2, m % y2, y2, 6)) \div 2)

\* sqrt(x) for x >= 0.
FSqrt(x) ==
    IF x[1] <= 0 THEN FZero
    ELSE FNorm(SqrtIter(IF x[2] % 2 = 1 THEN x[1] * 10 ELSE x[1],
                        4 * MantMax + 1, 4 * MantMax),
               ((IF x[2] % 2 = 1 THEN x[2] - 1 ELSE x[2]) \div 2) - 3)

\* x < y: by the signs, then by the exponents, then by the mantissas.
FLt(x, y) ==
    IF x[1] = 0 \/ y[1] = 0 \/ (x[1] < 0) # (y[1] < 0) \/ x[2] = y[2]
    THEN x[1] < y[1]
    ELSE (x[2] < y[2]) = (x[1] > 0)
FLe(x, y) == ~FLt(y, x)
FGt(x, y) == FLt(y, x)
FGe(x, y) == ~FLt(x, y)
FMax(x, y) == IF FLt(x, y) THEN y ELSE x

\* The integer n as a number.
FInt(n) == FNorm(n, 0)

FSq(x) == FMul(x, x)


\* ------------------------------------------------------------------------
\* Elementary functions (numpy's exp, sin, cos, log), by their series
\* ------------------------------------------------------------------------

SeriesTerms == 40

FPi == <<314159, -5>>
FLn10 == <<230258, -5>>

\* The series of exp: sum is prev + term, and the term after term is
\* term * x / n.
RECURSIVE ExpSeries(_, _, _, _, _)
ExpTail(x, term, sum, n) == ExpSeries(x, term, sum, FAdd(sum, term), n)
ExpSeries(x, term, prev, sum, n) ==
    IF term[1] = 0 \/ n > SeriesTerms \/ (sum = prev /\ n > 1) THEN sum
    ELSE ExpTail(x, FDiv(FMul(term, x), FInt(n)), sum, n + 1)

\* np.exp(x)
FExp(x) ==
    IF x[1] < 0 THEN FDiv(FOne, ExpSeries(FNeg(x), FOne, FZero, FOne, 1))
    ELSE ExpSeries(x, FOne, FZero, FOne, 1)

\* The series of sin (from n = 2) and of cos (from n = 1): sum is
\* prev + term, and the term after term is -term * x2 / (n (n + 1)).
RECURSIVE TrigSeries(_, _, _, _, _)
TrigTail(x2, term, sum, n) == TrigSeries(x2, term, sum, FAdd(sum, term), n)
TrigSeries(x2, term, prev, sum, n) ==
    IF term[1] = 0 \/ n > SeriesTerms \/ (sum = prev /\ n > 2) THEN sum
    ELSE TrigTail(x2, FNeg(FDiv(FMul(term, x2), FInt(n * (n + 1)))), sum, n + 2)

\* The integer part of x, for |x| < 10^9
FTrunc(x) ==
    IF x[2] >= 0 THEN x[1] * Pow10(x[2])
    ELSE IF x[2] < -6 THEN 0
    ELSE TruncDiv(x[1], Pow10(-x[2]))

\* The argument reduction of sin and cos: x less the multiple of 2 pi
\* nearest to it, when |x| > pi.
FTwoPi == <<628318, -5>>
Turns(x) == ISgn(x[1]) * FTrunc(FAdd(FDiv(FAbs(x), FTwoPi), FHalf))
Reduced(x) ==
    IF FLe(FAbs(x), FPi) THEN x ELSE FSub(x, FMul(FInt(Turns(x)), FTwoPi))

SinSeries(x) == TrigSeries(FSq(x), x, FZero, x, 2)
CosSeries(x) == TrigSeries(FSq(x), FOne, FZero, FOne, 1)

\* np.sin(x), np.cos(x)
FSin(x) == SinSeries(Reduced(x))
FCos(x) == CosSeries(Reduced(x))

\* The series of atanh: sum is prev + zpow / n.
RECURSIVE AtanhSeries(_, _, _, _, _)
AtanhTail(z2, zpow, sum, n) ==
    AtanhSeries(z2, zpow, sum, FAdd(sum, FDiv(zpow, FInt(n))), n)
AtanhSeries(z2, zpow, prev, sum, n) ==
    IF zpow[1] = 0 \/ n > 2 * SeriesTerms \/ (sum = prev /\ n > 1) THEN sum
    ELSE AtanhTail(z2, FMul(zpow, z2), sum, n + 2)

\* 2 atanh(z)
FTwoAtanh(z) == FMul(FTwo, AtanhTail(FSq(z), z, FZero, 1))

\* np.log(y) for y > 0: y = f * 10^k with f in [1, 10),
\* log f = 2 atanh((f - 1) / (f + 1))
FLog(y) ==
    FAdd(FMul(FInt(y[2] + 5), FLn10),
         FTwoAtanh(FDiv(FSub(<<y[1], -5>>, FOne), FAdd(<<y[1], -5>>, FOne))))


\* xs[i] + ... + xs[Len(xs)] added to acc from the left
RECURSIVE FSumFrom(_, _, _)
FSumFrom(xs, i, acc) ==
    IF i > Len(xs) THEN acc ELSE FSumFrom(xs, i + 1, FAdd(acc, xs[i]))

FSum(xs) == FSumFrom(xs, 1, FZero)

\* x ** n for an integer n >= 0
RECURSIVE FPow(_, _)
FPow(x, n) == IF n = 0 THEN FOne ELSE FMul(FPow(x, n - 1), x)

\* ------------------------------------------------------------------------
\* hamiltonian_trading.py: constants and TradingParameters
\* ------------------------------------------------------------------------

MIN_PARAM_VALUE == Dec(1, -10)
MAX_NOISE_AMPLITUDE == Dec(1, 0)

ArrayNames == <<"amplitude", "frequency", "phase", "decay", "decay_rate">>
ScalarNames == <<"a", "b", "x0", "alpha_0", "alpha_1", "alpha_2",
                 "tau", "eta", "gamma", "sigma", "beta">>

\* The arguments of TradingParameters(...): the five arrays, the eleven
\* scalars, and eta_im, the imaginary part of eta (0 for a float eta; the
\* dataclass takes any number for a scalar field).
MkParams(n, amp, freq, ph, dec, drate, sc) ==
    [n_pairs |-> n, amplitude |-> amp, frequency |-> freq, phase |-> ph,
     decay |-> dec, decay_rate |-> drate,
     a |-> sc[1], b |-> sc[2], x0 |-> sc[3],
     alpha_0 |-> sc[4], alpha_1 |-> sc[5], alpha_2 |-> sc[6],
     tau |-> sc[7], eta |-> sc[8], gamma |-> sc[9],
     sigma |-> sc[10], beta |-> sc[11], eta_im |-> FZero]

\* np.all(xs >= lo): false for an entry that is NaN
AllGe(xs, lo) == \A i \in 1..Len(xs) : xs[i] # FNaN /\ FGe(xs[i], lo)

\* __post_init__ without its last assertion.
PostInitNoSigma(p) ==
    /\ p.n_pairs > 0
    /\ \A k \in 1..Len(ArrayNames) : Len(p[ArrayNames[k]]) = p.n_pairs
    /\ AllGe(p.amplitude, MIN_PARAM_VALUE)
    /\ AllGe(p.frequency, MIN_PARAM_VALUE)
    /\ AllGe(p.decay_rate, MIN_PARAM_VALUE)

\* TradingParameters.__post_init__: TRUE when no assertion fails.
PostInitOK(p) ==
    /\ p.n_pairs > 0
    /\ \A k \in 1..Len(ArrayNames) : Len(p[ArrayNames[k]]) = p.n_pairs
    /\ AllGe(p.amplitude, MIN_PARAM_VALUE)
    /\ AllGe(p.frequency, MIN_PARAM_VALUE)
    /\ AllGe(p.decay_rate, MIN_PARAM_VALUE)
    /\ p.sigma # FNaN
    /\ FLe(FAbs(p.sigma), MAX_NOISE_AMPLITUDE)

\* TradingParameters(...): the instance, or the AssertionError of
\* __post_init__ and no instance.
NewTradingParameters(p) ==
    IF PostInitOK(p) THEN [raised |-> FALSE, instance |-> p]
    ELSE [raised |-> TRUE, instance |-> <<>>]

\* create_default_parameters(n_pairs): np.linspace(0.1, 1.0, n) is [0.1] for
\* n = 1 and 0.1 + i * 0.9 / (n - 1) otherwise.
Linspace(n) ==
    [i \in 1..n |-> IF n = 1 THEN Dec(1, -1)
                    ELSE FAdd(Dec(1, -1),
                              FMul(FInt(i - 1), FDiv(Dec(9, -1), FInt(n - 1))))]

create_default_parameters(n) ==
    MkParams(n, [i \in 1..n |-> FMul(FOne, Dec(5, -1))], Linspace(n),
             [i \in 1..n |-> FZero], [i \in 1..n |-> FMul(FOne, Dec(3, -1))],
             [i \in 1..n |-> FMul(FOne, Dec(1, -1))],
             <<Dec(1, 0), FZero, Dec(5, -1), Dec(1, -2), Dec(1, -1), Dec(5, -2),
               Dec(5, 0), Dec(2, -1), Dec(1, 0), Dec(1, -2), Dec(5, -2)>>)


\* ------------------------------------------------------------------------
\* Complex numbers <<re, im>>, vectors and matrices (numpy arrays of dtype
\* complex).  A matrix is the sequence of its rows.
\* ------------------------------------------------------------------------

CNaN == <<FNaN, FNaN>>

CZero == <<FZero, FZero>>
COne == <<FOne, FZero>>
CReal(x) == <<x, FZero>>
CAdd(x, y) == <<FAdd(x[1], y[1]), FAdd(x[2], y[2])>>
CSub(x, y) == <<FSub(x[1], y[1]), FSub(x[2], y[2])>>
CMul(x, y) ==
    <<FSub(FMul(x[1], y[1]), FMul(x[2], y[2])),
      FAdd(FMul(x[1], y[2]), FMul(x[2], y[1]))>>
CConj(x) == <<x[1], FNeg(x[2])>>
CScale(c, x) == <<FMul(c, x[1]), FMul(c, x[2])>>
\* |x|**2 and np.abs(x)
CAbsSq(x) == FAdd(FSq(x[1]), FSq(x[2]))
CAbs(x) == FSqrt(CAbsSq(x))

\* x / y for y # 0: x * conj(y) / |y|**2
CDivBy(num, den) == <<FDiv(num[1], den), FDiv(num[2], den)>>
CDiv(x, y) == CDivBy(CMul(x, CConj(y)), CAbsSq(y))

\* xs[i] + ... added to acc from the left
RECURSIVE CSumFrom(_, _, _)
CSumFrom(xs, i, acc) ==
    IF i > Len(xs) THEN acc ELSE CSumFrom(xs, i + 1, CAdd(acc, xs[i]))
CSum(xs) == CSumFrom(xs, 1, CZero)

\* np.zeros((d, d)), np.eye(d)
MZero(d) == [i \in 1..d |-> [j \in 1..d |-> CZero]]
Eye(d) == [i \in 1..d |-> [j \in 1..d |-> IF i = j THEN COne ELSE CZero]]
MNaN(d) == [i \in 1..d |-> [j \in 1..d |-> CNaN]]

MAdd(A, B) == [i \in 1..Len(A) |-> [j \in 1..Len(A) |-> CAdd(A[i][j], B[i][j])]]
MSub(A, B) == [i \in 1..Len(A) |-> [j \in 1..Len(A) |-> CSub(A[i][j], B[i][j])]]
\* c * A for a complex scalar c
MScale(c, A) == [i \in 1..Len(A) |-> [j \in 1..Len(A) |-> CMul(c, A[i][j])]]
\* A @ B
MMul(A, B) ==
    [i \in 1..Len(A) |-> [j \in 1..Len(A) |->
        CSum([k \in 1..Len(A) |-> CMul(A[i][k], B[k][j])])]]
\* A.conj().T
ConjT(A) == [i \in 1..Len(A) |-> [j \in 1..Len(A) |-> CConj(A[j][i])]]
\* A @ v
MatVec(A, v) ==
    [i \in 1..Len(A) |-> CSum([k \in 1..Len(A) |-> CMul(A[i][k], v[k])])]

\* np.kron(A, B) of square matrices
Kron(A, B) ==
    [i \in 1..(Len(A) * Len(B)) |-> [j \in 1..(Len(A) * Len(B)) |->
        CMul(A[((i - 1) \div Len(B)) + 1][((j - 1) \div Len(B)) + 1],
             B[((i - 1) % Len(B)) + 1][((j - 1) % Len(B)) + 1])]]

\* np.linalg.norm(A): the Frobenius norm
FrobeniusNorm(A) ==
    FSqrt(FSum([k \in 1..(Len(A) * Len(A)) |->
                   CAbsSq(A[((k - 1) \div Len(A)) + 1][((k - 1) % Len(A)) + 1])]))

\* ------------------------------------------------------------------------
\* QuantumTradingHamiltonian: the Pauli operators and their cache
\* ------------------------------------------------------------------------

SigmaX == <<<<CZero, COne>>, <<COne, CZero>>>>
SigmaZ == <<<<COne, CZero>>, <<CZero, CReal(FNeg(FOne))>>>>

\* The loop of _tensor_product_operator from its index i on.
RECURSIVE TensorFrom(_, _, _, _, _)
TensorFrom(result, single_op, qubit, i, n) ==
    IF i = n THEN result
    ELSE TensorFrom(Kron(result, IF i = qubit THEN single_op ELSE Eye(2)),
                    single_op, qubit, i + 1, n)

\* _tensor_product_operator(single_op, qubit) of an engine of n qubits
TensorProductOperator(single_op, qubit, n) ==
    TensorFrom(Eye(1), single_op, qubit, 0, n)

\* _construct_pauli_x, _construct_pauli_z
ConstructPauli(kind, qubit, n) ==
    TensorProductOperator(IF kind = "X" THEN SigmaX ELSE SigmaZ, qubit, n)

\* _get_pauli_x(qubit), _get_pauli_z(qubit): the cached operator of the
\* key <<qubit, kind>>, or the operator constructed for it.
GetPauli(cache, kind, qubit, n) ==
    IF <<qubit, kind>> \in DOMAIN cache THEN cache[<<qubit, kind>>]
    ELSE ConstructPauli(kind, qubit, n)

\* self._pauli_cache after requests of the keys in keys.
CacheAfter(cache, keys, n) ==
    [key \in DOMAIN cache \cup keys |->
        IF key \in DOMAIN cache THEN cache[key]
        ELSE ConstructPauli(key[2], key[1], n)]

\* The keys hamiltonian_operator requests on every call that gets past its
\* second term: each qubit's X and Z.
AllPauliKeys(n) == {<<q, kind>> : q \in 0..(n - 1), kind \in {"X", "Z"}}

\* sum(ops), Python's sum from the int 0
RECURSIVE MSumFrom(_, _, _)
MSumFrom(ops, i, acc) ==
    IF i > Len(ops) THEN acc ELSE MSumFrom(ops, i + 1, MAdd(acc, ops[i]))
MSum(ops) == IF Len(ops) = 0 THEN MZero(0) ELSE MSumFrom(ops, 2, ops[1])

\* _get_trading_operator(pair_index)
GetTradingOperator(cache, pair_index, n) ==
    GetPauli(cache, IF pair_index % 2 = 0 THEN "X" ELSE "Z", pair_index % n, n)

\* _get_integral_operator, _get_time_operator
GetSumOperator(cache, kind, n) ==
    MSum([q \in 1..n |-> GetPauli(cache, kind, q - 1, n)])

\* _get_regime_operator
RECURSIVE RegimeFrom(_, _, _, _)
RegimeFrom(cache, op, i, n) ==
    IF i >= n - 1 THEN op
    ELSE RegimeFrom(cache,
                    MAdd(op, MMul(GetPauli(cache, "X", i, n),
                                  GetPauli(cache, "X", i + 1, n))),
                    i + 1, n)
GetRegimeOperator(cache, n) == RegimeFrom(cache, MZero(2 ^ n), 0, n)

\* ------------------------------------------------------------------------
\* QuantumTradingHamiltonian: constants and mathematical functions
\* ------------------------------------------------------------------------

\* 1e-15 in the program, 4.5 times the spacing 2^-52 of its numbers at 1;
\* here 4.5 times the spacing 10^-5 of the model's numbers at 1.
QUANTUM_PRECISION_TOLERANCE == Dec(45, -6)
MAX_HAMILTONIAN_NORM == Dec(1, 10)
\* the default rtol of np.allclose
ALLCLOSE_RTOL == Dec(1, -5)
\* the state history keeps this many vectors
HISTORY_LIMIT == 1000

\* _softplus(x)
Softplus(x) ==
    IF FGt(x, Dec(20, 0)) THEN x
    ELSE IF FLt(x, Dec(-20, 0)) THEN FExp(x)
    ELSE FLog(FAdd(FOne, FExp(x)))

\* _sigmoid(x)
SigmoidOfExp(exp_x) == FDiv(exp_x, FAdd(FOne, exp_x))
Sigmoid(x) ==
    IF x[1] >= 0 THEN FDiv(FOne, FAdd(FOne, FExp(FNeg(x))))
    ELSE SigmoidOfExp(FExp(x))

\* s = params.a * (x - params.x0)**2 + params.b
FieldArgument(p, x) == FAdd(FMul(p.a, FSq(FSub(x, p.x0))), p.b)

\* The integrand of _compute_softplus_integral; _f_function and _g_prime
\* return 1.0.
Integrand(p, x) == FMul(FMul(Softplus(FieldArgument(p, x)), FOne), FOne)

\* scipy's quad(integrand, 0, t) returns the integral to 1e-12; the model
\* computes it to its own precision by Simpson's rule on
\* 2 * QuadHalfIntervals intervals of width h.
QuadHalfIntervals == 2

SimpsonWeight(k, n) == IF k = 0 \/ k = n THEN 1 ELSE IF k % 2 = 1 THEN 4 ELSE 2

RECURSIVE SimpsonSum(_, _, _, _, _)
SimpsonSum(p, h, k, n, acc) ==
    IF k > n THEN acc
    ELSE SimpsonSum(p, h, k + 1, n,
                    FAdd(acc, FMul(FInt(SimpsonWeight(k, n)),
                                   Integrand(p, FMul(FInt(k), h)))))

Quad(p, h) ==
    FMul(FDiv(h, FInt(3)), SimpsonSum(p, h, 0, 2 * QuadHalfIntervals, FZero))

\* _compute_softplus_integral(t, params) when quad returns
ComputeSoftplusIntegral(t, p) ==
    IF t[1] = 0 THEN FZero ELSE Quad(p, FDiv(t, FInt(2 * QuadHalfIntervals)))

\* ------------------------------------------------------------------------
\* QuantumTradingHamiltonian: state vectors
\* ------------------------------------------------------------------------

HasNaN(v) == \E k \in 1..Len(v) : v[k][1] = FNaN \/ v[k][2] = FNaN

\* np.abs(np.vdot(v, v)): the imaginary part of the product is exactly 0
SquaredNorm(v) ==
    IF HasNaN(v) THEN FNaN ELSE FSum([k \in 1..Len(v) |-> CAbsSq(v[k])])

\* abs(norm - 1.0) > QUANTUM_PRECISION_TOLERANCE, false for a NaN
NotNormalized(norm) ==
    norm # FNaN /\ FGt(FAbs(FSub(norm, FOne)), QUANTUM_PRECISION_TOLERANCE)

\* _get_previous_state_norm(t)
GetPreviousStateNorm(state_hist) ==
    IF Len(state_hist) = 0 THEN FZero ELSE SquaredNorm(state_hist[Len(state_hist)])

\* A faulty trim of the history: pop() for pop(0), which drops the vector
\* just appended.
HistoryPopNewest(state_hist, new_state) ==
    IF Len(state_hist) + 1 > HISTORY_LIMIT THEN state_hist
    ELSE Append(state_hist, new_state)

\* The statements of update_quantum_state after its check: the history
\* after the append and the pop.
HistoryAfter(state_hist, new_state) ==
    IF Len(state_hist) + 1 > HISTORY_LIMIT
    THEN Tail(Append(state_hist, new_state))
    ELSE Append(state_hist, new_state)

\* A faulty update_quantum_state: the assignment before the check.
UpdateBeforeCheck(cur, state_hist, new_state) ==
    [raised |-> NotNormalized(SquaredNorm(new_state)), quantum_state |-> new_state,
     state_history |-> state_hist]

\* update_quantum_state(new_state) on an engine of current state cur and
\* history state_hist: whether it raises ValueError, and the two after it.
UpdateQuantumState(cur, state_hist, new_state) ==
    IF NotNormalized(SquaredNorm(new_state))
    THEN [raised |-> TRUE, quantum_state |-> cur, state_history |-> state_hist]
    ELSE [raised |-> FALSE, quantum_state |-> new_state,
          state_history |-> HistoryAfter(state_hist, new_state)]

\* ------------------------------------------------------------------------
\* QuantumTradingHamiltonian.hamiltonian_operator
\* ------------------------------------------------------------------------

\* H += c * op
AddTerm(H, c, op) == MAdd(H, MScale(c, op))

MatHasNaN(A) == \E i, j \in 1..Len(A) : A[i][j][1] = FNaN \/ A[i][j][2] = FNaN

\* The signal with a cosine for the sine.
SignalCosine(p, i, t) ==
    FAdd(FMul(p.amplitude[i + 1],
              FCos(FAdd(FMul(p.frequency[i + 1], t), p.phase[i + 1]))),
         FMul(p.decay[i + 1], FExp(FMul(FNeg(p.decay_rate[i + 1]), t))))

\* The signal of pair i (from 0) at time t: sin_term + exp_term
Signal(p, i, t) ==
    FAdd(FMul(p.amplitude[i + 1],
              FSin(FAdd(FMul(p.frequency[i + 1], t), p.phase[i + 1]))),
         FMul(p.decay[i + 1], FExp(FMul(FNeg(p.decay_rate[i + 1]), t))))

\* Term 1: the loop over the pairs from pair i on.
RECURSIVE SignalTerms(_, _, _, _, _, _)
SignalTerms(H, cache, p, t, i, n) ==
    IF i >= p.n_pairs THEN H
    ELSE SignalTerms(AddTerm(H, CReal(Signal(p, i, t)),
                             GetTradingOperator(cache, i, n)),
                     cache, p, t, i + 1, n)

\* Term 2 without the handler of the failure.
IntegralOnly(t, p, quad_ok) == ComputeSoftplusIntegral(t, p)

\* Term 2: the integral, or with a failed quadrature the softplus at t.
IntegralValue(t, p, quad_ok) ==
    IF quad_ok THEN ComputeSoftplusIntegral(t, p)
    ELSE Softplus(FieldArgument(p, t))

\* Term 3: alpha_0 * t**2 + alpha_1 * sin(2 pi t) + alpha_2 * log(1 + t).
\* np.log returns -inf at 0 and nan below it, with a warning; the product of
\* either with the entries of the operator has a NaN in every entry.
AlphaTerms(t, p) ==
    IF FLe(FAdd(FOne, t), FZero) THEN FNaN
    ELSE FAdd(FAdd(FMul(p.alpha_0, FSq(t)),
                   FMul(p.alpha_1, FSin(FMul(FMul(FTwo, FPi), t)))),
              FMul(p.alpha_2, FLog(FAdd(FOne, t))))

\* H += alpha_terms * self._get_time_operator()
AddAlpha(H, alpha_terms, op) ==
    IF alpha_terms = FNaN THEN MNaN(Len(H)) ELSE AddTerm(H, CReal(alpha_terms), op)

\* Term 4: regime_term = eta * heaviside_val * sigmoid_val, with the
\* imaginary part a caller's eta may carry.
RegimeTerm(p) ==
    CScale(Sigmoid(FMul(p.gamma, FOne)),
           <<FMul(p.eta, FOne), FMul(p.eta_im, FOne)>>)

\* The regime term without its condition t >= tau.
AddRegimeAlways(H, cache, t, p, n) ==
    IF ~MatHasNaN(H) THEN AddTerm(H, RegimeTerm(p), GetRegimeOperator(cache, n))
    ELSE H

AddRegime(H, cache, t, p, n) ==
    IF FGe(t, p.tau) /\ ~MatHasNaN(H)
    THEN AddTerm(H, RegimeTerm(p), GetRegimeOperator(cache, n))
    ELSE H

\* Terms 1 to 4.
DeterministicTerms(n, cache, t, p, quad_ok) ==
    AddRegime(
        AddAlpha(
            AddTerm(SignalTerms(MZero(2 ^ n), cache, p, t, 0, n),
                    CReal(IntegralValue(t, p, quad_ok)),
                    GetSumOperator(cache, "X", n)),
            AlphaTerms(t, p),
            GetSumOperator(cache, "Z", n)),
        cache, t, p, n)

\* Term 5: noise_scaling = 1.0 + beta * previous_state_norm
NoiseScaling(p, previous_state_norm) ==
    IF previous_state_norm = FNaN THEN FNaN
    ELSE FAdd(FOne, FMul(p.beta, previous_state_norm))

\* The noise without the factor sigma.
NoiseUnscaled(p, noise_scaling, xi) ==
    IF noise_scaling = FNaN THEN FNaN
    ELSE FAdd(FZero, FMul(noise_scaling, xi))

\* sigma * np.random.normal(0, noise_scaling), where the draw is
\* 0 + noise_scaling * xi for a standard normal xi
Noise(p, noise_scaling, xi) ==
    IF noise_scaling = FNaN THEN FNaN
    ELSE FMul(p.sigma, FAdd(FZero, FMul(noise_scaling, xi)))

\* H += noise * self._get_noise_operator()
AddNoise(H, noise, op) ==
    IF noise = FNaN \/ MatHasNaN(H) THEN MNaN(Len(H))
    ELSE AddTerm(H, CReal(noise), op)

\* np.allclose(A, B, atol=QUANTUM_PRECISION_TOLERANCE):
\* |a - b| <= atol + rtol * |b| for every entry
AllClose(A, B) ==
    /\ ~MatHasNaN(A)
    /\ \A i, j \in 1..Len(A) :
          FLe(CAbs(CSub(A[i][j], B[i][j])),
              FAdd(QUANTUM_PRECISION_TOLERANCE, FMul(ALLCLOSE_RTOL, CAbs(B[i][j]))))

\* (H + H.conj().T) / 2
\* (x + y) / 2, exact in the program's binary numbers when x = y
HalfSum(x, y) == IF x = y THEN x ELSE FDiv(FAdd(x, y), FTwo)

SymmetrizedEntry(z, w) == <<HalfSum(z[1], w[1]), HalfSum(z[2], w[2])>>

Symmetrized(H) ==
    IF MatHasNaN(H) THEN MNaN(Len(H))
    ELSE [i \in 1..Len(H) |-> [j \in 1..Len(H) |->
            SymmetrizedEntry(H[i][j], CConj(H[j][i]))]]

\* norm > MAX_HAMILTONIAN_NORM, false for a NaN
NormTooLarge(A) ==
    ~MatHasNaN(A) /\ FGt(FrobeniusNorm(A), MAX_HAMILTONIAN_NORM)

\* The outcome of a call that got to _validate_hamiltonian with the matrix
\* H: hermitian is the result of its check, symmetrized the value of its
\* local H after the check, returned the matrix hamiltonian_operator returns.
ValidatedOutcome(H, hermitian, symmetrized) ==
    [raised |-> NormTooLarge(symmetrized), validated |-> TRUE,
     assembled |-> H, hermitian |-> hermitian, symmetrized |-> symmetrized,
     returned |-> H]

ValidateChecked(H, hermitian) ==
    ValidatedOutcome(H, hermitian, IF hermitian THEN H ELSE Symmetrized(H))

\* _validate_hamiltonian(H, t) and the return of hamiltonian_operator
ValidateHamiltonian(H) == ValidateChecked(H, AllClose(H, ConjT(H)))

\* The outcome of a call in which np.random.normal raises ValueError.
NoiseRaised ==
    [raised |-> TRUE, validated |-> FALSE, assembled |-> <<>>,
     hermitian |-> FALSE, symmetrized |-> <<>>, returned |-> <<>>]

HamiltonianWithScaling(n, cache, t, p, xi, site, quad_ok, noise_scaling) ==
    IF noise_scaling # FNaN /\ noise_scaling[1] < 0 THEN NoiseRaised
    ELSE ValidateHamiltonian(
            AddNoise(DeterministicTerms(n, cache, t, p, quad_ok),
                     Noise(p, noise_scaling, xi),
                     GetPauli(cache, "Z", site, n)))

\* hamiltonian_operator(t, params) on an engine of n qubits, cache cache
\* and history state_hist; xi and site are the draws of np.random.normal
\* and np.random.randint, quad_ok whether quad returns.
HamiltonianOperator(n, cache, state_hist, t, p, xi, site, quad_ok) ==
    HamiltonianWithScaling(n, cache, t, p, xi, site, quad_ok,
                           NoiseScaling(p, GetPreviousStateNorm(state_hist)))

\* ------------------------------------------------------------------------
\* The arrays the statements of hamiltonian_operator change in place
\* ------------------------------------------------------------------------
\* The getters return the array the cache holds, not a copy, so a statement
\* that changes an array in place changes the cache when its array is a
\* cached one.  An array is named by its key in the cache, or is NewArray:
\* one the call made itself (np.zeros, the value of an expression).

NewArray == <<-1, "new">>

\* The cached Pauli-X of qubit 0.
FirstPauliX == <<0, "X">>

\* H = np.zeros(...), the array of the statements H += ...
HamiltonianAccumulator == NewArray

\* op = np.zeros(...) of _get_regime_operator, the array of op += ...
RegimeAccumulator == NewArray

\* target += addend
Accumulated(cache, target, addend) ==
    IF target \in DOMAIN cache
    THEN [cache EXCEPT ![target] = MAdd(@, addend)]
    ELSE cache

\* self._pauli_cache after a call of hamiltonian_operator that assembled
\* the matrix H (<<>> when it did not get that far): every key has been
\* requested; regime is t >= tau, the condition of _get_regime_operator.
CacheAfterBuild(cache, n, regime, H) ==
    Accumulated(
        IF regime
        THEN Accumulated(CacheAfter(cache, AllPauliKeys(n), n), RegimeAccumulator,
                         GetRegimeOperator(cache, n))
        ELSE CacheAfter(cache, AllPauliKeys(n), n),
        HamiltonianAccumulator, H)

\* ------------------------------------------------------------------------
\* QuantumTradingHamiltonian.evolve_state: one step
\* ------------------------------------------------------------------------

\* U = np.eye(hilbert_dim) - 1j * H * dt
EvolutionOperator(H, dt) ==
    [i \in 1..Len(H) |-> [j \in 1..Len(H) |->
        CSub(IF i = j THEN COne ELSE CZero,
             CScale(dt, <<FNeg(H[i][j][2]), H[i][j][1]>>))]]

NaNVector(d) == [k \in 1..d |-> CNaN]

\* v /= c for the complex c = <<norm, 0>>: numpy multiplies by 1 / norm
DivideByNorm(v, norm) ==
    IF norm[1] = 0 THEN NaNVector(Len(v))
    ELSE [k \in 1..Len(v) |-> CScale(FDiv(FOne, norm), v[k])]

\* new_state /= np.sqrt(np.vdot(new_state, new_state))
Normalized(v) == DivideByNorm(v, FSqrt(SquaredNorm(v)))

\* new_state of one step of evolve_state
EvolvedState(H, dt, state) ==
    IF MatHasNaN(H) \/ HasNaN(state) THEN NaNVector(Len(state))
    ELSE Normalized(MatVec(EvolutionOperator(H, dt), state))

\* ------------------------------------------------------------------------
\* gradient_optimizer.py: constants
\* ------------------------------------------------------------------------

DEFAULT_LEARNING_RATE == Dec(1, -2)
MIN_LEARNING_RATE == Dec(1, -6)
MAX_LEARNING_RATE == Dec(1, 0)
GRADIENT_CLIP_THRESHOLD == Dec(10, 0)
CONVERGENCE_TOLERANCE == Dec(1, -6)
\* h = 1e-5 of compute_gradients
FD_STEP == Dec(1, -5)
DEFAULT_BETA1 == Dec(9, -1)
DEFAULT_BETA2 == Dec(999, -3)
DEFAULT_EPSILON == Dec(1, -8)

\* ------------------------------------------------------------------------
\* The default loss, np.linalg.norm(hamiltonian.hamiltonian_operator(t, p)):
\* norms holds, in the order of the calls of the epoch, the parameter set
\* of each call and the norm it got.
RECURSIVE NormOn(_, _, _)
NormOn(norms, p, k) ==
    IF k > Len(norms) THEN FZero
    ELSE IF norms[k].params = p THEN norms[k].norm
    ELSE NormOn(norms, p, k + 1)

\* The caller's loss function.  loss_fn is any callable of the parameter
\* set; the model draws it from four families:
\*   "const"  returns lf.c for every parameter set;
\*   "ampsq"  returns the sum of the squares of the amplitudes;
\*   "regime" returns tau + 2 * eta + 3 * gamma;
\*   "of_b"   an arbitrary function of the field b alone, its value at the
\*            current b passed as cur (no perturbation of compute_gradients
\*            changes b, so all its evaluations in one epoch see that b).
\* ------------------------------------------------------------------------
LossFn(lf, p, cur) ==
    CASE lf.kind = "const" -> lf.c
      [] lf.kind = "ampsq" -> FSum([i \in 1..p.n_pairs |-> FSq(p.amplitude[i])])
      [] lf.kind = "regime" ->
           FAdd(FAdd(p.tau, FMul(FTwo, p.eta)), FMul(Dec(3, 0), p.gamma))
      [] lf.kind = "default" -> NormOn(lf.norms, p, 1)
      [] OTHER -> cur

\* ------------------------------------------------------------------------
\* QuantumGradientOptimizer: perturbation, gradients, clipping
\* ------------------------------------------------------------------------

\* _perturb_param: a copy built by TradingParameters(...), then one entry
\* of one array changed by delta.
PerturbParam(p, name, i, delta) == [p EXCEPT ![name][i] = FAdd(@, delta)]

\* _perturb_scalar_param: a copy, then one scalar changed by delta.
PerturbScalarParam(p, name, delta) == [p EXCEPT ![name] = FAdd(@, delta)]

\* The sigmoid_s of compute_gradients.
GradSigmoid(s) ==
    IF FLt(FAbs(s), Dec(20, 0))
    THEN FDiv(FOne, FAdd(FOne, FExp(FNeg(s))))
    ELSE IF s[1] > 0 THEN FOne ELSE FZero

\* The array entries and the scalar entries of the gradient dictionary.
GradArrays == {"amplitude", "phase", "decay_rate", "frequency", "decay"}

\* The values of the gradient dictionary, in the order of insertion, each as
\* a sequence.
GradValues(g) ==
    <<g.amplitude, g.phase, g.decay_rate, g.frequency, g.decay,
      <<g.a>>, <<g.b>>, <<g.x0>>, <<g.alpha_0>>, <<g.alpha_1>>, <<g.alpha_2>>,
      <<g.tau>>, <<g.eta>>, <<g.gamma>>, <<g.sigma>>, <<g.beta>> >>

\* np.sum(grad**2)
SumOfSquares(xs) == FSum([i \in 1..Len(xs) |-> FSq(xs[i])])

\* float('inf'): above every number the model computes
FInf == <<MantMin, 1000>>

\* np.sqrt of a sum of squares: a sum above the largest double has
\* overflowed to inf, and its root is inf.
SqrtOfSum(s) == IF FGt(s, Dec(179769, 303)) THEN FInf ELSE FSqrt(s)

\* np.sqrt(sum(np.sum(grad**2) for grad in gradients.values()))
NormOfValues(vals) ==
    SqrtOfSum(FSum([k \in 1..Len(vals) |-> SumOfSquares(vals[k])]))

GlobalNorm(g) == NormOfValues(GradValues(g))

ScaleSeq(xs, c) == [i \in 1..Len(xs) |-> FMul(xs[i], c)]

\* {key: grad * scale for key, grad in gradients.items()}
ScaleGradients(g, scale) ==
    [key \in DOMAIN g |->
        IF key \in GradArrays THEN ScaleSeq(g[key], scale) ELSE FMul(g[key], scale)]

\* scale = GRADIENT_CLIP_THRESHOLD / global_norm, which is 0.0 for an
\* infinite norm
ClipScale(global_norm) ==
    IF global_norm = FInf THEN FZero
    ELSE FDiv(GRADIENT_CLIP_THRESHOLD, global_norm)

\* _clip_gradients, on the gradients and their global norm
ClipByNorm(g, global_norm) ==
    IF FGt(global_norm, GRADIENT_CLIP_THRESHOLD)
    THEN ScaleGradients(g, ClipScale(global_norm))
    ELSE g

ClipGradients(g) == ClipByNorm(g, GlobalNorm(g))

\* The difference divided by h, not by 2 * h.
DifferenceOverStep(lf, plus, minus, cur) ==
    FDiv(FSub(LossFn(lf, plus, cur), LossFn(lf, minus, cur)), FD_STEP)

\* (loss_fn(plus) - loss_fn(minus)) / (2 * h)
CentralDifference(lf, plus, minus, cur) ==
    FDiv(FSub(LossFn(lf, plus, cur), LossFn(lf, minus, cur)), FMul(FTwo, FD_STEP))

\* The finite-difference loops of compute_gradients over one array.
ArrayFD(p, name, lf, cur) ==
    [i \in 1..p.n_pairs |->
        CentralDifference(lf, PerturbParam(p, name, i, FD_STEP),
                          PerturbParam(p, name, i, FNeg(FD_STEP)), cur)]

\* The finite difference of compute_gradients in one scalar.
ScalarFD(p, name, lf, cur) ==
    CentralDifference(lf, PerturbScalarParam(p, name, FD_STEP),
                      PerturbScalarParam(p, name, FNeg(FD_STEP)), cur)

\* The finite differences compute_gradients takes, by parameter name.
FiniteDifferences(p, lf, cur) ==
    [name \in {"amplitude", "phase", "frequency", "decay",
               "tau", "eta", "gamma", "sigma", "beta"} |->
        IF name \in GradArrays THEN ArrayFD(p, name, lf, cur)
        ELSE ScalarFD(p, name, lf, cur)]

\* The gradient dictionary before clipping: fd are the finite differences,
\* sigmoid_s the sigmoid of the field argument, regime is t >= tau.
RawGradients(p, t, fd, sigmoid_s, regime) ==
    [amplitude |-> fd.amplitude,
     phase |-> [i \in 1..p.n_pairs |->
                  FMul(FHalf,
                       FAdd(FMul(p.amplitude[i],
                                 FCos(FAdd(FMul(p.frequency[i], t), p.phase[i]))),
                            fd.phase[i]))],
     decay_rate |-> [i \in 1..p.n_pairs |->
                  FMul(FMul(FNeg(t), p.decay[i]),
                       FExp(FMul(FNeg(p.decay_rate[i]), t)))],
     frequency |-> fd.frequency,
     decay |-> fd.decay,
     a |-> FMul(FSq(FSub(t, p.x0)), sigmoid_s),
     b |-> sigmoid_s,
     x0 |-> FMul(FMul(FMul(Dec(-2, 0), p.a), FSub(t, p.x0)), sigmoid_s),
     alpha_0 |-> FSq(t),
     alpha_1 |-> FSin(FMul(FMul(FTwo, FPi), t)),
     alpha_2 |-> FLog(FAdd(FOne, t)),
     tau |-> IF regime THEN fd.tau ELSE FZero,
     eta |-> IF regime THEN fd.eta ELSE FZero,
     gamma |-> IF regime THEN fd.gamma ELSE FZero,
     sigma |-> fd.sigma,
     beta |-> fd.beta]

\* The gradients as they are before the closing statements.
Unclipped(clip, g) == g

\* The closing statements of compute_gradients.
ClipIf(clip, g) == IF clip THEN ClipGradients(g) ELSE g

\* compute_gradients(hamiltonian, params, t, loss_fn) with a caller's
\* loss_fn; clip is self.clip_gradients.
ComputeGradients(clip, p, t, lf, cur) ==
    ClipIf(clip, RawGradients(p, t, FiniteDifferences(p, lf, cur),
                              GradSigmoid(FieldArgument(p, t)), FGe(t, p.tau)))


\* ------------------------------------------------------------------------
\* QuantumGradientOptimizer: Adam, the learning-rate schedule, the update
\* ------------------------------------------------------------------------

\* QuantumGradientOptimizer(...): the instance after __init__.
NewOptimizer(lr, adam, clip, sched) ==
    [learning_rate |-> lr, initial_learning_rate |-> lr,
     beta1 |-> DEFAULT_BETA1, beta2 |-> DEFAULT_BETA2,
     epsilon |-> DEFAULT_EPSILON,
     use_adam |-> adam, clip_gradients |-> clip, scheduler_type |-> sched,
     m |-> <<>>, v |-> <<>>, t |-> 0]

\* The keys of self.m and self.v: <<name, i>> is f'{name}_{i}', <<name>> is name.
AdamKeys(n) ==
    {<<ArrayNames[k], i>> : k \in 1..Len(ArrayNames), i \in 0..(n - 1)}
    \cup {<<ScalarNames[k]>> : k \in 1..Len(ScalarNames)}

KeyValue(rec, key) ==
    IF Len(key) = 2 THEN rec[key[1]][key[2] + 1] ELSE rec[key[1]]

Moment(d, key) == IF key \in DOMAIN d THEN d[key] ELSE FZero

\* The bias corrections and the step of _adam_update, on the new moments.
AdamStep(opt, param_value, m1, v1) ==
    [m |-> m1, v |-> v1,
     value |-> FSub(param_value,
                    FDiv(FMul(opt.learning_rate,
                              FDiv(m1, FSub(FOne, FPow(opt.beta1, opt.t)))),
                         FAdd(FSqrt(FDiv(v1, FSub(FOne, FPow(opt.beta2, opt.t)))),
                              opt.epsilon)))]

\* _adam_update(param_value, gradient, param_key): the new moments of the
\* key and the updated value.
AdamUpdate(opt, param_value, gradient, key) ==
    AdamStep(opt, param_value,
             FAdd(FMul(opt.beta1, Moment(opt.m, key)),
                  FMul(FSub(FOne, opt.beta1), gradient)),
             FAdd(FMul(opt.beta2, Moment(opt.v, key)),
                  FMul(FSub(FOne, opt.beta2), FSq(gradient))))

\* A schedule that rises from MIN_LEARNING_RATE: 1 - cos in place of 1 + cos.
WarmupRate(opt, epoch, max_epochs) ==
    FAdd(MIN_LEARNING_RATE,
         FMul(FMul(FHalf, FSub(opt.initial_learning_rate, MIN_LEARNING_RATE)),
              FSub(FOne, FCos(FDiv(FMul(FPi, FInt(epoch)), FInt(max_epochs))))))

\* _update_learning_rate(epoch, max_epochs): the new self.learning_rate.
UpdateLearningRate(opt, epoch, max_epochs) ==
    CASE opt.scheduler_type = "cosine" ->
           FAdd(MIN_LEARNING_RATE,
                FMul(FMul(FHalf, FSub(opt.initial_learning_rate, MIN_LEARNING_RATE)),
                     FAdd(FOne, FCos(FDiv(FMul(FPi, FInt(epoch)), FInt(max_epochs))))))
      [] opt.scheduler_type = "exponential" ->
           FMax(FMul(opt.initial_learning_rate,
                     FExp(FMul(FDiv(FInt(epoch), FInt(100)), FLog(Dec(95, -2))))),
                MIN_LEARNING_RATE)
      [] OTHER -> opt.learning_rate

\* The calls of _adam_update that _update_params_with_gradients makes, by key.
AdamUpdates(opt, p, g) ==
    [key \in AdamKeys(p.n_pairs) |->
        AdamUpdate(opt, KeyValue(p, key), KeyValue(g, key), key)]

\* The new value of one parameter: by Adam, or params - learning_rate * grad.
NewValue(opt, p, g, step, key) ==
    IF opt.use_adam THEN step[key].value
    ELSE FSub(KeyValue(p, key), FMul(opt.learning_rate, KeyValue(g, key)))

\* The arguments of the TradingParameters(...) that closes
\* _update_params_with_gradients.
NewParams(opt, p, g, step) ==
    [name \in DOMAIN p |->
        IF name \in {"n_pairs", "eta_im"} THEN p[name]
        ELSE IF name \in GradArrays
        THEN [i \in 1..p.n_pairs |-> NewValue(opt, p, g, step, <<name, i - 1>>)]
        ELSE NewValue(opt, p, g, step, <<name>>)]

\* self after the calls of _adam_update.
OptimizerAfter(opt, step) ==
    IF opt.use_adam
    THEN [opt EXCEPT !.m = [key \in DOMAIN step |-> step[key].m],
                     !.v = [key \in DOMAIN step |-> step[key].v]]
    ELSE opt

\* A closing TradingParameters(...) whose __post_init__ checks nothing.
UpdateOutcomeUnchecked(opt, step, new) ==
    [optimizer |-> OptimizerAfter(opt, step), params |-> new, ok |-> TRUE]

UpdateOutcome(opt, step, new) ==
    [optimizer |-> OptimizerAfter(opt, step), params |-> new, ok |-> PostInitOK(new)]

UpdateWithSteps(opt, p, g, step) ==
    UpdateOutcome(opt, step, NewParams(opt, p, g, step))

\* _update_params_with_gradients(params, gradients): the optimizer after
\* the calls of _adam_update, the arguments of the closing
\* TradingParameters(...), and whether its __post_init__ passes.
UpdateParamsWithGradients(opt, p, g) ==
    UpdateWithSteps(opt, p, g, AdamUpdates(opt, p, g))


\* ------------------------------------------------------------------------
\* State
\* ------------------------------------------------------------------------

VARIABLES
    optimizer,          \* the QuantumGradientOptimizer instance (self)
    pc,                 \* optimize_parameters: "idle", "loop", "returned", "raised"
    args,               \* its arguments
    epoch,              \* its loop variable
    params,             \* its local params
    loss_history,       \* its local loss_history
    gradient_norms,     \* its local gradient_norms
    learning_rates,     \* its local learning_rates
    best_loss,          \* its local best_loss
    patience_counter,   \* its local patience_counter
    result,             \* the OptimizationResult it returned, or NoResult
    loss_table,         \* the values the "of_b" loss function has returned, by b
    n_qubits,           \* the QuantumTradingHamiltonian instance: self.n_qubits
    time_steps,         \* self.time_steps
    quantum_state,      \* self.quantum_state
    state_history,      \* self.state_history
    pauli_cache,        \* self._pauli_cache
    evolve,             \* evolve_state: whether it runs, its step, its arguments
    last_call,          \* the last call on the engine: its arguments and outcome
    calls,              \* the number of calls made on the engine
    rejected,           \* the number of ValueErrors of update_quantum_state
    accepted,           \* the vectors update_quantum_state has accepted, in order
    direct_call,        \* a call of one method that has ended: its name,
                        \* its arguments and its outcome
    rng,                \* the state of numpy's global random generator
    build,              \* the Hamiltonian norms the running epoch has got
    other               \* a second run, on instances of its own: its position

optVars == <<optimizer, pc, args, epoch, params, loss_history, gradient_norms,
             learning_rates, best_loss, patience_counter, result, loss_table>>

engVars == <<n_qubits, time_steps, quantum_state, state_history, pauli_cache,
             evolve, last_call, calls, rejected, accepted>>

runVars == <<rng, build, other>>

vars == <<optVars, engVars, direct_call, runVars>>

\* ------------------------------------------------------------------------
\* Bounds of the model and the inputs drawn within them
\* ------------------------------------------------------------------------

MaxEpochsBound == 3
MaxPatience == 2

NoResult == [converged |-> FALSE, convergence_reason |-> "", epochs |-> -1]
NoArgs == [max_epochs |-> 0, convergence_patience |-> 0,
           loss_fn |-> [kind |-> "none"], initial_params |-> [n_pairs |-> 0]]

\* A valid parameter set whose amplitude and decay rate are one or two
\* optimizer steps above MIN_PARAM_VALUE, and whose decay amplitude is negative.
SmallParams ==
    [create_default_parameters(1) EXCEPT !.amplitude = <<Dec(15, -3)>>,
                                         !.decay = <<Dec(-3, -1)>>,
                                         !.decay_rate = <<Dec(15, -3)>>]

ParamChoices ==
    {create_default_parameters(1), create_default_parameters(2), SmallParams}

LossValues == {FZero, Dec(1, -6), Dec(2, -6)}

ConstLoss == [kind |-> "const", c |-> FOne]

\* The (initial_params, loss_fn) pairs of the calls.
CallChoices ==
    {<<ip, lf>> : ip \in ParamChoices, lf \in {ConstLoss, [kind |-> "ampsq"]}}
    \cup {<<create_default_parameters(1), [kind |-> "of_b"]>>}

\* The call of the test script and of the scenario of the specification:
\* two channels, max_epochs = 10, the default convergence_patience, a
\* deterministic loss.
SCENARIO_MAX_EPOCHS == 10
DEFAULT_CONVERGENCE_PATIENCE == 50

ScenarioArgs ==
    [initial_params |-> create_default_parameters(2), loss_fn |-> [kind |-> "ampsq"],
     max_epochs |-> SCENARIO_MAX_EPOCHS,
     convergence_patience |-> DEFAULT_CONVERGENCE_PATIENCE]

\* The arguments of the calls of optimize_parameters.
CallArgs ==
    {[initial_params |-> call[1], loss_fn |-> call[2],
      max_epochs |-> me, convergence_patience |-> pat] :
        call \in CallChoices, me \in 0..MaxEpochsBound, pat \in 0..MaxPatience}
    \cup {ScenarioArgs}

\* The optimizers constructed: each option takes each of its values.
OptimizerChoices ==
    {NewOptimizer(DEFAULT_LEARNING_RATE, TRUE, TRUE, "cosine"),
     NewOptimizer(DEFAULT_LEARNING_RATE, TRUE, FALSE, "exponential"),
     NewOptimizer(DEFAULT_LEARNING_RATE, FALSE, TRUE, "constant"),
     NewOptimizer(DEFAULT_LEARNING_RATE, FALSE, FALSE, "cosine")}

\* The values loss_fn(params) can take at the current parameters.
CurrentLosses(lf, p, table) ==
    IF lf.kind = "of_b"
    THEN IF p.b \in DOMAIN table THEN {table[p.b]} ELSE LossValues
    ELSE {LossFn(lf, p, FZero)}

\* ------------------------------------------------------------------------
\* QuantumTradingHamiltonian.__init__
\* ------------------------------------------------------------------------

\* np.zeros(hilbert_dim) with entry 0 set to 1.0
BasisState(d, k) == [i \in 1..d |-> IF i = k THEN COne ELSE CZero]

NoEvolve == [running |-> FALSE, step |-> 0, params |-> [n_pairs |-> 0], dt |-> FZero]

\* The record of a call: op its name, done whether it has ended, raised
\* whether it ended in an exception, arg the vector of update_quantum_state
\* or what hamiltonian_operator got from its environment (the noise draw xi,
\* the noise site, whether the quadrature succeeded), t and params the
\* arguments of hamiltonian_operator and ham its outcome.
Call(op, done, raised, arg, t, p, ham) ==
    [op |-> op, done |-> done, raised |-> raised, arg |-> arg,
     t |-> t, params |-> p, ham |-> ham]

NoCall == Call("none", TRUE, FALSE, <<>>, FZero, [n_pairs |-> 0], NoiseRaised)

\* The validation of __init__ without the upper limit of n_qubits.
EngineArgumentsUnlimited(n, steps) == ~(n < 1) /\ ~(steps < 1)

\* The validation of __init__: TRUE when no ValueError is raised.
EngineArgumentsOK(n, steps) == ~(n < 1 \/ n > 20) /\ ~(steps < 1)

\* np.zeros(d, dtype=complex) with entry k set to 1.0, k counted from 0, as
\* its dimension and its entries other than 0.
SparseBasisState(d, k) == [dim |-> d, nonzero |-> [i \in {k} |-> COne]]

\* QuantumTradingHamiltonian(n_qubits, time_steps): the ValueError, or the
\* fields of the instance.
NewEngine(n, steps) ==
    IF EngineArgumentsOK(n, steps)
    THEN [raised |-> FALSE, n_qubits |-> n, time_steps |-> steps,
          hilbert_dim |-> 2 ^ n, quantum_state |-> SparseBasisState(2 ^ n, 0),
          state_history |-> <<>>, pauli_cache |-> <<>>]
    ELSE [raised |-> TRUE]

\* The engine of the behaviours: NewEngine(n, steps), its state as the
\* sequence of its entries.
ConstructEngine(n, steps) ==
    /\ n_qubits = n
    /\ time_steps = steps
    /\ quantum_state = BasisState(2 ^ n, 1)
    /\ state_history = <<>>
    /\ pauli_cache = <<>>
    /\ evolve = NoEvolve
    /\ last_call = NoCall
    /\ calls = 0
    /\ rejected = 0
    /\ accepted = <<>>

\* ------------------------------------------------------------------------
\* optimize_parameters
\* ------------------------------------------------------------------------

\* No call has been recorded.
NoDirectCall == [op |-> "none", input |-> <<>>, output |-> <<>>]
NoDirectCalls == direct_call = NoDirectCall

\* No optimization on the default loss has begun, and nothing has drawn from
\* the generator: seed is its state.
NoBuilds == <<>>
NoOther == [pc |-> "idle", epoch |-> 0, max_epochs |-> 0]
NoRuns(seed) == rng = seed /\ build = NoBuilds /\ other = NoOther

InitOptimizer(choices) ==
    /\ optimizer \in choices
    /\ pc = "idle"
    /\ args = NoArgs
    /\ epoch = 0
    /\ params = NoArgs.initial_params
    /\ loss_history = <<>>
    /\ gradient_norms = <<>>
    /\ learning_rates = <<>>
    /\ best_loss = FInf
    /\ patience_counter = 0
    /\ result = NoResult
    /\ loss_table = <<>>

\* The optimizer with the Adam state of the run before.
KeepAdam(opt) == opt

\* self.m = {}; self.v = {}; self.t = 0
ResetAdam(opt) == [opt EXCEPT !.m = <<>>, !.v = <<>>, !.t = 0]

\* The call and the statements before the loop.
OptimizeStart ==
    /\ pc = "idle"
    /\ args' \in CallArgs
    /\ params' = args'.initial_params
    /\ loss_history' = <<>>
    /\ gradient_norms' = <<>>
    /\ learning_rates' = <<>>
    /\ best_loss' = FInf
    /\ patience_counter' = 0
    /\ optimizer' = ResetAdam(optimizer)
    /\ epoch' = 0
    /\ pc' = "loop"
    /\ UNCHANGED <<result, loss_table, engVars, direct_call, runVars>>

\* Two faulty convergence checks: one that never sees an improvement, one
\* that always does.
NeverImproves(loss, best) == FALSE
AlwaysImproves(loss, best) == TRUE

\* Whether the epoch's loss resets the patience counter.
Improves(loss, best) == FLt(loss, FSub(best, CONVERGENCE_TOLERANCE))

\* A faulty early return: epochs is the loop index, not the count of epochs.
PatienceResultAtIndex(p, loss, lh, gn, lrs, ep) ==
    [optimized_params |-> p, final_loss |-> loss, loss_history |-> lh,
     gradient_norms |-> gn, learning_rates |-> lrs, epochs |-> ep,
     converged |-> TRUE, convergence_reason |-> "patience"]

\* The OptimizationResult of the early return.
PatienceResult(p, loss, lh, gn, lrs, ep) ==
    [optimized_params |-> p, final_loss |-> loss, loss_history |-> lh,
     gradient_norms |-> gn, learning_rates |-> lrs, epochs |-> ep + 1,
     converged |-> TRUE, convergence_reason |-> "patience"]

\* A return after the loop with the first loss for the last.
MaxEpochsResultFirstLoss(p, lh, gn, lrs, me) ==
    [optimized_params |-> p, final_loss |-> lh[1], loss_history |-> lh,
     gradient_norms |-> gn, learning_rates |-> lrs, epochs |-> me,
     converged |-> FALSE, convergence_reason |-> "max_epochs"]

\* The OptimizationResult of the return after the loop.
MaxEpochsResult(p, lh, gn, lrs, me) ==
    [optimized_params |-> p, final_loss |-> lh[Len(lh)], loss_history |-> lh,
     gradient_norms |-> gn, learning_rates |-> lrs, epochs |-> me,
     converged |-> FALSE, convergence_reason |-> "max_epochs"]

\* The locals of optimize_parameters that the loop changes.
Locals(p, lh, gn, lrs, best, counter) ==
    [params |-> p, loss_history |-> lh, gradient_norms |-> gn,
     learning_rates |-> lrs, best_loss |-> best, patience_counter |-> counter]

\* The end of the loop body: the convergence check, on the histories after
\* their appends, the outcome upd of _update_params_with_gradients and the
\* new patience counter.  ends is "raise" (the AssertionError of
\* TradingParameters), "return" (the early return) or "next".
EpochEnd(a, ep, loc, loss, upd, improved, lh, gn, lrs, counter) ==
    [optimizer |-> upd.optimizer,
     locals |-> IF upd.ok
                THEN Locals(upd.params, lh, gn, lrs,
                            IF improved THEN loss ELSE loc.best_loss, counter)
                ELSE Locals(loc.params, lh, gn, lrs, loc.best_loss,
                            loc.patience_counter),
     ends |-> IF ~upd.ok THEN "raise"
              ELSE IF counter >= a.convergence_patience THEN "return"
              ELSE "next",
     result |-> PatienceResult(upd.params, loss, lh, gn, lrs, ep)]

\* The loop body from the appends to the histories on.
EpochUpdate(opt1, a, ep, loc, loss, grad_norm, upd, improved) ==
    EpochEnd(a, ep, loc, loss, upd, improved,
             Append(loc.loss_history, loss),
             Append(loc.gradient_norms, grad_norm),
             Append(loc.learning_rates, opt1.learning_rate),
             IF improved THEN 0 ELSE loc.patience_counter + 1)

\* The loop body after loss_fn and compute_gradients.
EpochGradients(opt1, a, ep, loc, loss, gradients) ==
    EpochUpdate(opt1, a, ep, loc, loss, GlobalNorm(gradients),
                UpdateParamsWithGradients(opt1, loc.params, gradients),
                Improves(loss, loc.best_loss))

\* The loop body after self.t = epoch + 1 and _update_learning_rate; the
\* time of the epoch is t = epoch * 0.01.
EpochLoss(opt1, a, ep, loc, cur) ==
    EpochGradients(opt1, a, ep, loc, LossFn(a.loss_fn, loc.params, cur),
                   ComputeGradients(opt1.clip_gradients, loc.params,
                                    FMul(FInt(ep), Dec(1, -2)), a.loss_fn, cur))

\* The body of the loop for one epoch, on self and the locals at its start
\* and the value cur of loss_fn at the current parameters.
EpochBody(opt, a, ep, loc, cur) ==
    EpochLoss([opt EXCEPT !.t = ep + 1,
                          !.learning_rate = UpdateLearningRate(opt, ep, a.max_epochs)],
              a, ep, loc, cur)

\* The assignments of one iteration, from the outcome of its body.
EpochAssign(out, cur) ==
    /\ optimizer' = out.optimizer
    /\ params' = out.locals.params
    /\ loss_history' = out.locals.loss_history
    /\ gradient_norms' = out.locals.gradient_norms
    /\ learning_rates' = out.locals.learning_rates
    /\ best_loss' = out.locals.best_loss
    /\ patience_counter' = out.locals.patience_counter
    /\ pc' = CASE out.ends = "raise" -> "raised"
               [] out.ends = "return" -> "returned"
               [] OTHER -> "loop"
    /\ epoch' = IF out.ends = "next" THEN epoch + 1 ELSE epoch
    /\ result' = IF out.ends = "return" THEN out.result ELSE result
    /\ loss_table' =
         IF args.loss_fn.kind = "of_b"
         THEN [b \in DOMAIN loss_table \cup {params.b} |->
                  IF b = params.b THEN cur ELSE loss_table[b]]
         ELSE loss_table

\* One iteration of the loop.
OptimizeEpoch ==
    /\ pc = "loop"
    /\ epoch < args.max_epochs
    /\ \E cur \in CurrentLosses(args.loss_fn, params, loss_table) :
          EpochAssign(EpochBody(optimizer, args, epoch,
                                Locals(params, loss_history, gradient_norms,
                                       learning_rates, best_loss, patience_counter),
                                cur),
                      cur)
    /\ UNCHANGED <<args, engVars, direct_call, runVars>>

\* The statements after the loop: the return, or the IndexError of
\* loss_history[-1] on an empty history.
OptimizeFinish ==
    /\ pc = "loop"
    /\ epoch >= args.max_epochs
    /\ IF loss_history = <<>>
       THEN pc' = "raised" /\ UNCHANGED result
       ELSE /\ pc' = "returned"
            /\ result' = MaxEpochsResult(params, loss_history, gradient_norms,
                                         learning_rates, args.max_epochs)
    /\ UNCHANGED <<optimizer, args, epoch, params, loss_history, gradient_norms,
                   learning_rates, best_loss, patience_counter, loss_table, engVars, direct_call, runVars>>

Init ==
    InitOptimizer(OptimizerChoices) /\ ConstructEngine(1, 1) /\ NoDirectCalls
    /\ NoRuns(0)

Next == OptimizeStart \/ OptimizeEpoch \/ OptimizeFinish

Spec == Init /\ [][Next]_vars

\* ------------------------------------------------------------------------
\* Two runs of optimize_parameters on one optimizer: a run on the new
\* optimizer and, when it has returned, a run with the same arguments on the
\* optimizer as the first run left it.
\* ------------------------------------------------------------------------

\* The arguments of the runs: every parameter set and loss of CallChoices,
\* with a patience that ends the run early and one that does not.
RerunArgs ==
    {[initial_params |-> call[1], loss_fn |-> call[2],
      max_epochs |-> MaxEpochsBound, convergence_patience |-> pat] :
        call \in CallChoices, pat \in {1, DEFAULT_CONVERGENCE_PATIENCE}}

\* The statements before the loop, for the arguments a.
StartRun(a) ==
    /\ args' = a
    /\ params' = a.initial_params
    /\ loss_history' = <<>>
    /\ gradient_norms' = <<>>
    /\ learning_rates' = <<>>
    /\ best_loss' = FInf
    /\ patience_counter' = 0
    /\ optimizer' = ResetAdam(optimizer)
    /\ epoch' = 0
    /\ pc' = "loop"

\* The first call.
RerunStart ==
    /\ pc = "idle"
    /\ \E a \in RerunArgs : StartRun(a)
    /\ UNCHANGED <<result, loss_table, engVars, direct_call, runVars>>

\* The second call, with the arguments of the first: direct_call keeps the
\* arguments and the result of the first.
OptimizeAgain ==
    /\ pc = "returned"
    /\ NoDirectCalls
    /\ direct_call' = [op |-> "optimize_parameters", input |-> args,
                       output |-> result]
    /\ StartRun(args)
    /\ UNCHANGED <<result, loss_table, engVars, runVars>>

NextRerun == RerunStart \/ OptimizeEpoch \/ OptimizeFinish \/ OptimizeAgain

SpecRerun == Init /\ [][NextRerun]_vars

\* ------------------------------------------------------------------------
\* The calls on a QuantumTradingHamiltonian
\* ------------------------------------------------------------------------

\* update_quantum_state(v), from its outcome
UpdateAssign(out, v) ==
    /\ quantum_state' = out.quantum_state
    /\ state_history' = out.state_history
    /\ rejected' = IF out.raised THEN rejected + 1 ELSE rejected
    /\ accepted' = IF out.raised THEN accepted ELSE Append(accepted, v)
    /\ last_call' = Call("update_quantum_state", TRUE, out.raised, v, FZero,
                         NoCall.params, NoiseRaised)
    /\ calls' = calls + 1
    /\ UNCHANGED <<n_qubits, time_steps, pauli_cache, evolve, optVars, direct_call, runVars>>

UpdateCall(v) ==
    /\ ~evolve.running
    /\ UpdateAssign(UpdateQuantumState(quantum_state, state_history, v), v)

\* hamiltonian_operator(t, p), from its outcome
HamiltonianAssign(out, t, p, env) ==
    /\ pauli_cache' = CacheAfterBuild(pauli_cache, n_qubits, FGe(t, p.tau),
                                      out.assembled)
    /\ last_call' = Call("hamiltonian_operator", TRUE, out.raised, env, t, p, out)
    /\ calls' = calls + 1
    /\ UNCHANGED <<n_qubits, time_steps, quantum_state, state_history, evolve,
                   rejected, accepted, optVars, direct_call, runVars>>

HamiltonianCall(t, p, xi, site, quad_ok) ==
    /\ ~evolve.running
    /\ HamiltonianAssign(HamiltonianOperator(n_qubits, pauli_cache, state_history,
                                             t, p, xi, site, quad_ok),
                         t, p, [xi |-> xi, site |-> site, quad_ok |-> quad_ok])

\* evolve_state(p, dt): the call
EvolveStart(p, dt) ==
    /\ ~evolve.running
    /\ evolve' = [running |-> TRUE, step |-> 0, params |-> p, dt |-> dt]
    /\ last_call' = Call("evolve_state", FALSE, FALSE, <<>>, FZero, p, NoiseRaised)
    /\ calls' = calls + 1
    /\ UNCHANGED <<n_qubits, time_steps, quantum_state, state_history, pauli_cache,
                   rejected, accepted, optVars, direct_call, runVars>>

\* An evolve_state that, left by an exception, puts the engine back to the
\* state of its construction.
EvolveRaiseReset(errors) ==
    /\ evolve' = NoEvolve
    /\ last_call' = [last_call EXCEPT !.done = TRUE, !.raised = TRUE]
    /\ rejected' = rejected + errors
    /\ quantum_state' = BasisState(2 ^ n_qubits, 1)
    /\ state_history' = <<>>
    /\ UNCHANGED accepted

\* evolve_state left by an exception, of update_quantum_state (errors = 1)
\* or of hamiltonian_operator (errors = 0)
EvolveRaise(errors) ==
    /\ evolve' = NoEvolve
    /\ last_call' = [last_call EXCEPT !.done = TRUE, !.raised = TRUE]
    /\ rejected' = rejected + errors
    /\ UNCHANGED <<quantum_state, state_history, accepted>>

\* self.update_quantum_state(new_state) and the end of the iteration
EvolveAccept(upd, new_state) ==
    IF upd.raised THEN EvolveRaise(1)
    ELSE /\ quantum_state' = upd.quantum_state
         /\ state_history' = upd.state_history
         /\ accepted' = Append(accepted, new_state)
         /\ evolve' = [evolve EXCEPT !.step = @ + 1]
         /\ UNCHANGED <<last_call, rejected>>

EvolveUpdate(new_state) ==
    EvolveAccept(UpdateQuantumState(quantum_state, state_history, new_state),
                 new_state)

\* One iteration of the loop of evolve_state, from the outcome of its call
\* of hamiltonian_operator.
EvolveWith(out) ==
    /\ IF out.raised THEN EvolveRaise(0)
       ELSE EvolveUpdate(EvolvedState(out.returned, evolve.dt, quantum_state))
    /\ pauli_cache' = CacheAfterBuild(pauli_cache, n_qubits,
                                      FGe(FMul(FInt(evolve.step), evolve.dt),
                                          evolve.params.tau),
                                      out.assembled)
    /\ UNCHANGED <<n_qubits, time_steps, calls, optVars, direct_call, runVars>>

EvolveIteration(xi, site, quad_ok) ==
    /\ evolve.running
    /\ evolve.step < time_steps
    /\ EvolveWith(HamiltonianOperator(n_qubits, pauli_cache, state_history,
                                      FMul(FInt(evolve.step), evolve.dt),
                                      evolve.params, xi, site, quad_ok))

\* return self.quantum_state
EvolveFinish ==
    /\ evolve.running
    /\ evolve.step >= time_steps
    /\ evolve' = NoEvolve
    /\ last_call' = [last_call EXCEPT !.done = TRUE]
    /\ UNCHANGED <<n_qubits, time_steps, quantum_state, state_history, pauli_cache,
                   calls, rejected, accepted, optVars, direct_call, runVars>>

\* ------------------------------------------------------------------------
\* numpy's global random generator
\* ------------------------------------------------------------------------

\* The generator's state is the number of values drawn from it; a build
\* draws np.random.normal and then np.random.randint.
NormalDraw(state) == IF (state \div 2) % 2 = 0 THEN Dec(-15, -1) ELSE Dec(7, -1)
SiteDraw(state, n) == ((state + 1) \div 2) % n
DrawsPerBuild == 2

\* The states the generator can be in at a call.
GeneratorStates == {0, 2}

\* ------------------------------------------------------------------------
\* QuantumTradingHamiltonian.get_optimal_timing
\* ------------------------------------------------------------------------

\* dt = 0.01
TIMING_DT == Dec(1, -2)
TIMING_SAMPLES == 100

\* min(self.time_steps, 100)
TimingSamples(steps) == IF steps < TIMING_SAMPLES THEN steps ELSE TIMING_SAMPLES

\* t = step * dt
SampleTime(step) == FMul(FInt(step), TIMING_DT)

\* derivative = np.linalg.norm(H2 - H1) / dt
Derivative(H1, H2) ==
    IF MatHasNaN(H1) \/ MatHasNaN(H2) THEN FNaN
    ELSE FDiv(FrobeniusNorm(MSub(H2, H1)), TIMING_DT)

\* derivative <= min_derivative
NotAbove(derivative, min_derivative) ==
    derivative # FNaN /\ FLe(derivative, min_derivative)

\* derivative < min_derivative, false for a NaN
Below(derivative, min_derivative) ==
    derivative # FNaN /\ FLt(derivative, min_derivative)

\* The outcome of get_optimal_timing: whether it raised, the value it
\* returned, the derivatives of its samples in order.
TimingResult(raised, best_time, derivatives) ==
    [raised |-> raised, best_time |-> best_time, derivatives |-> derivatives]

\* The loop of get_optimal_timing from the sample step on, on an engine of
\* n qubits and steps time steps with the cache and the history given; the
\* generator is in the state state at the first of its builds.
RECURSIVE TimingLoop(_, _, _, _, _, _, _, _, _, _)

TimingCompare(n, steps, cache, hist, p, state, step, best, least, ds, d) ==
    TimingLoop(n, steps, cache, hist, p, state + 2 * DrawsPerBuild, step + 1,
               IF Below(d, least) THEN SampleTime(step) ELSE best,
               IF Below(d, least) THEN d ELSE least,
               Append(ds, d))

TimingSecond(n, steps, cache, hist, p, state, step, best, least, ds, H1, out2) ==
    IF out2.raised THEN TimingResult(TRUE, best, ds)
    ELSE TimingCompare(n, steps, cache, hist, p, state, step, best, least, ds,
                       Derivative(H1, out2.returned))

TimingFirst(n, steps, cache, hist, p, state, step, best, least, ds, out1) ==
    IF out1.raised THEN TimingResult(TRUE, best, ds)
    ELSE TimingSecond(n, steps, cache, hist, p, state, step, best, least, ds,
                      out1.returned,
                      HamiltonianOperator(n, cache, hist,
                                          FAdd(SampleTime(step), TIMING_DT), p,
                                          NormalDraw(state + DrawsPerBuild),
                                          SiteDraw(state + DrawsPerBuild, n), TRUE))

TimingLoop(n, steps, cache, hist, p, state, step, best, least, ds) ==
    IF step >= TimingSamples(steps) THEN TimingResult(FALSE, best, ds)
    ELSE TimingFirst(n, steps, cache, hist, p, state, step, best, least, ds,
                     HamiltonianOperator(n, cache, hist, SampleTime(step), p,
                                         NormalDraw(state), SiteDraw(state, n),
                                         TRUE))

\* get_optimal_timing(params): best_time = 0.0, min_derivative = inf
GetOptimalTiming(n, steps, cache, hist, p, state) ==
    TimingLoop(n, steps, cache, hist, p, state, 0, FZero, FInf, <<>>)

\* ------------------------------------------------------------------------
\* The inputs of the calls on the engine
\* ------------------------------------------------------------------------

\* The engines constructed have one or two qubits.
EngineSizes == {1, 2}

\* The draws of np.random.normal(0, 1) and of np.random.randint(0, n)
Draws == {Dec(-15, -1), Dec(7, -1)}
Sites(n) == 0..(n - 1)

\* The optimizer of the behaviours that call the engine alone.
DefaultOptimizer == {NewOptimizer(DEFAULT_LEARNING_RATE, TRUE, TRUE, "cosine")}

\* Vectors of dimension d: c times basis vector k
Scaled(d, k, c) == [i \in 1..d |-> IF i = k THEN c ELSE CZero]

\* The vectors callers pass to update_quantum_state: basis vectors with
\* a real and an imaginary amplitude, an equal superposition rounded to six
\* digits, a vector off the unit sphere by less than the tolerance, vectors
\* off it by more, the zero vector, a vector with a NaN.
ValidStates(d) ==
    {BasisState(d, 1), Scaled(d, 2, <<FZero, FOne>>),
     [i \in 1..d |-> IF i <= 2 THEN CReal(Dec(707106, -6)) ELSE CZero],
     Scaled(d, 1, CReal(Dec(100002, -5)))}

InvalidStates(d) ==
    {Scaled(d, 1, CReal(Dec(100003, -5))), Scaled(d, 1, CReal(Dec(6, -1))),
     Scaled(d, 1, CZero)}

NaNStates(d) == {Scaled(d, 1, CNaN)}

StateChoices(d) == ValidStates(d) \cup InvalidStates(d) \cup NaNStates(d)

\* The parameter sets of the calls of hamiltonian_operator: the default
\* set of two pairs, the set with a complex eta, the set whose beta makes
\* the noise scale negative, the set whose alpha_0 makes the norm large.
ComplexEtaParams == [create_default_parameters(2) EXCEPT !.eta_im = Dec(5, -1)]
NegativeBetaParams == [create_default_parameters(2) EXCEPT !.beta = Dec(-2, 0)]
LargeAlphaParams == [create_default_parameters(2) EXCEPT !.alpha_0 = Dec(1, 12)]

\* The same sets with the noise disabled (sigma = 0).
NoNoise(ps) == {[p EXCEPT !.sigma = FZero] : p \in ps}

\* An eta whose imaginary part alone takes the norm above the maximum.
ImaginaryEtaParams == [create_default_parameters(2) EXCEPT !.eta_im = Dec(1, 11)]

NoisyParams ==
    {create_default_parameters(2), ComplexEtaParams, NegativeBetaParams,
     LargeAlphaParams, ImaginaryEtaParams}

OperatorParams == NoisyParams \cup NoNoise(NoisyParams)

\* The times of the calls: before and after tau, and where 1 + t is 0.
OperatorTimes == {FZero, Dec(5, -1), Dec(6, 0), Dec(-1, 0)}

\* ------------------------------------------------------------------------
\* Behaviours of hamiltonian_operator: an engine, at most one state update,
\* one call of hamiltonian_operator.
\* ------------------------------------------------------------------------

InitOperator ==
    /\ NoDirectCalls
    /\ NoRuns(0)
    /\ InitOptimizer(DefaultOptimizer)
    /\ \E n \in EngineSizes : ConstructEngine(n, 1)

OperatorPrime ==
    /\ calls = 0
    /\ \E v \in {BasisState(2 ^ n_qubits, 1)} \cup NaNStates(2 ^ n_qubits) :
          UpdateCall(v)

OperatorCall ==
    /\ last_call.op # "hamiltonian_operator"
    /\ \E t \in OperatorTimes, p \in OperatorParams, xi \in Draws,
          site \in Sites(n_qubits), quad_ok \in BOOLEAN :
          HamiltonianCall(t, p, xi, site, quad_ok)

NextOperator == OperatorPrime \/ OperatorCall

SpecOperator == InitOperator /\ [][NextOperator]_vars

\* ------------------------------------------------------------------------
\* Behaviours of the state: an engine and up to MaxCalls calls of
\* update_quantum_state and evolve_state.
\* ------------------------------------------------------------------------

MaxCalls == 2

\* The engines constructed, as <<n_qubits, time_steps>>
StateEngines == {<<1, 2>>, <<2, 1>>}

\* The arguments of evolve_state: the default parameters, the default dt
\* and a negative one.
EvolveParams == {create_default_parameters(2)}
EvolveSteps == {Dec(1, -2), Dec(-1, 0)}

\* The draws of one iteration and whether its quad returns, as
\* <<xi, site, quad_ok>>
StateDraws(n) == {<<Dec(-15, -1), 0, TRUE>>, <<Dec(7, -1), n - 1, FALSE>>}

InitState ==
    /\ NoDirectCalls
    /\ NoRuns(0)
    /\ InitOptimizer(DefaultOptimizer)
    /\ \E e \in StateEngines : ConstructEngine(e[1], e[2])

StateUpdate ==
    /\ calls < MaxCalls
    /\ \E v \in StateChoices(2 ^ n_qubits) : UpdateCall(v)

StateEvolve ==
    /\ calls < MaxCalls
    /\ \E p \in EvolveParams, dt \in EvolveSteps : EvolveStart(p, dt)

StateEvolveStep ==
    \E draw \in StateDraws(n_qubits) : EvolveIteration(draw[1], draw[2], draw[3])

NextState == StateUpdate \/ StateEvolve \/ StateEvolveStep \/ EvolveFinish

SpecState == InitState /\ [][NextState]_vars

\* ------------------------------------------------------------------------
\* Behaviours of the history: an engine of one qubit whose callers fill the
\* history to two below its limit with the valid vectors in rotation, then
\* make FreeUpdates more calls with any vector.
\* ------------------------------------------------------------------------

FreeUpdates == 4

RotationLength == Cardinality(ValidStates(2)) - 1

\* The k-th vector of the rotation
Rotation(k) ==
    CASE k % RotationLength = 0 -> BasisState(2, 1)
      [] k % RotationLength = 1 -> Scaled(2, 2, <<FZero, FOne>>)
      [] OTHER -> Scaled(2, 1, CReal(Dec(100002, -5)))

HistoryChoices ==
    {BasisState(2, 1), Scaled(2, 2, <<FZero, FOne>>), Scaled(2, 1, CReal(Dec(6, -1)))}
    \cup NaNStates(2)

InitHistory ==
    InitOptimizer(DefaultOptimizer) /\ ConstructEngine(1, 1) /\ NoDirectCalls
    /\ NoRuns(0)

HistoryFill ==
    /\ calls < HISTORY_LIMIT - 2
    /\ UpdateCall(Rotation(calls))

HistoryUpdate ==
    /\ calls >= HISTORY_LIMIT - 2
    /\ calls < HISTORY_LIMIT - 2 + FreeUpdates
    /\ \E v \in HistoryChoices : UpdateCall(v)

NextHistory == HistoryFill \/ HistoryUpdate

SpecHistory == InitHistory /\ [][NextHistory]_vars

\* ------------------------------------------------------------------------
\* Methods called by themselves, on arguments drawn from bounded sets: one
\* call in a behaviour.
\* ------------------------------------------------------------------------

\* The outcome of one direct call.
DirectCall(op, input, output) ==
    /\ direct_call' = [op |-> op, input |-> input, output |-> output]
    /\ UNCHANGED <<optVars, engVars, runVars>>

\* A gradient dictionary for n pairs with every entry zero.
ZeroGradients(n) ==
    [key \in GradArrays \cup {"a", "b", "x0", "alpha_0", "alpha_1", "alpha_2",
                              "tau", "eta", "gamma", "sigma", "beta"} |->
        IF key \in GradArrays THEN [i \in 1..n |-> FZero] ELSE FZero]

\* Gradient entries: small ones, ones that reach the threshold together
\* (6 and 8), and one whose square is above the largest double.
ClipValues ==
    {FZero, Dec(5, -1), Dec(-3, 0), Dec(6, 0), Dec(8, 0), Dec(1, 200)}

GradientMaps ==
    {[ZeroGradients(1) EXCEPT !.amplitude[1] = x, !.b = y, !.sigma = z] :
        x \in ClipValues, y \in ClipValues, z \in ClipValues}

\* ------------------------------------------------------------------------
\* Parameter sets as objects.  heap[a] is the numpy array at address a; an
\* instance of TradingParameters holds the addresses of its five arrays and
\* the values of its scalars.  mem is a record of the heap and an instance.
\* ------------------------------------------------------------------------

ArrayIndex(name) == CHOOSE k \in 1..Len(ArrayNames) : ArrayNames[k] = name

\* An instance with the values of p, its arrays allocated at 1..5.
OnHeap(p) ==
    [heap |-> [k \in 1..Len(ArrayNames) |-> p[ArrayNames[k]]],
     obj |-> [f \in DOMAIN p |-> IF f \in GradArrays THEN ArrayIndex(f) ELSE p[f]]]

\* The values of the instance obj on the heap.
Deref(heap, obj) ==
    [f \in DOMAIN obj |-> IF f \in GradArrays THEN heap[obj[f]] ELSE obj[f]]

\* An instance that shares the arrays of the one it is made from.
SharedCopy(mem) == mem

\* TradingParameters(n_pairs=params.n_pairs,
\*                   amplitude=params.amplitude.copy(), ...): five new arrays
\* at the end of the heap and an instance that holds them.
DeepCopy(mem) ==
    [heap |-> mem.heap \o [k \in 1..Len(ArrayNames) |-> mem.heap[mem.obj[ArrayNames[k]]]],
     obj |-> [f \in DOMAIN mem.obj |->
                IF f \in GradArrays THEN Len(mem.heap) + ArrayIndex(f)
                ELSE mem.obj[f]]]

\* getattr(new_params, param_name)[index] += delta
AddInPlace(mem, name, i, delta) ==
    [mem EXCEPT !.heap[mem.obj[name]][i] = FAdd(@, delta)]

\* setattr(new_params, param_name, current_value + delta)
SetScalar(mem, name, delta) == [mem EXCEPT !.obj[name] = FAdd(@, delta)]

\* _perturb_param(params, param_name, index, delta), index counted from 1
PerturbOnHeap(mem, name, i, delta) == AddInPlace(DeepCopy(mem), name, i, delta)

\* _perturb_scalar_param(params, param_name, delta)
PerturbScalarOnHeap(mem, name, delta) == SetScalar(DeepCopy(mem), name, delta)

\* One perturbation of compute_gradients: index 0 is a scalar's.
PerturbOne(mem, q) ==
    IF q.index = 0 THEN PerturbScalarOnHeap(mem, q.name, q.delta)
    ELSE PerturbOnHeap(mem, q.name, q.index, q.delta)

\* The perturbations compute_gradients makes, in order: plus and minus h in
\* every entry of amplitude, phase, frequency and decay, in tau, eta and
\* gamma when t >= tau, in sigma and beta.
PlusMinus(name, i) ==
    <<[name |-> name, index |-> i, delta |-> FD_STEP],
      [name |-> name, index |-> i, delta |-> FNeg(FD_STEP)]>>

RECURSIVE ArrayPerturbations(_, _, _)
ArrayPerturbations(name, i, n) ==
    IF i > n THEN <<>>
    ELSE PlusMinus(name, i) \o ArrayPerturbations(name, i + 1, n)

Perturbations(n, regime) ==
    ArrayPerturbations("amplitude", 1, n) \o ArrayPerturbations("phase", 1, n)
    \o ArrayPerturbations("frequency", 1, n) \o ArrayPerturbations("decay", 1, n)
    \o (IF regime
        THEN PlusMinus("tau", 0) \o PlusMinus("eta", 0) \o PlusMinus("gamma", 0)
        ELSE <<>>)
    \o PlusMinus("sigma", 0) \o PlusMinus("beta", 0)

\* The heap after the perturbations qs of the instance obj from k on; the
\* perturbed instances are the callee's and are dropped.
RECURSIVE HeapAfter(_, _, _, _)
HeapAfter(heap, obj, qs, k) ==
    IF k > Len(qs) THEN heap
    ELSE HeapAfter(PerturbOne([heap |-> heap, obj |-> obj], qs[k]).heap,
                   obj, qs, k + 1)

\* compute_gradients(hamiltonian, params, t, loss_fn) on the heap: the
\* gradients, and the heap and the caller's instance after the call.
GradientsOnHeap(opt, mem, t, lf) ==
    [gradients |-> ComputeGradients(opt.clip_gradients, Deref(mem.heap, mem.obj),
                                    t, lf, FZero),
     heap |-> HeapAfter(mem.heap, mem.obj,
                        Perturbations(mem.obj.n_pairs, FGe(t, mem.obj.tau)), 1),
     obj |-> mem.obj]

\* The closing TradingParameters(...) of _update_params_with_gradients on
\* the copies new_amplitude, ..., new_decay_rate after the assignments to
\* their entries: new holds the values assigned.
StoreUpdated(mem, new) ==
    [heap |-> [a \in 1..Len(mem.heap) |->
                 IF a > Len(mem.heap) - Len(ArrayNames)
                 THEN new[ArrayNames[a - (Len(mem.heap) - Len(ArrayNames))]]
                 ELSE mem.heap[a]],
     obj |-> [f \in DOMAIN mem.obj |->
                IF f \in GradArrays THEN mem.obj[f] ELSE new[f]]]

\* _update_params_with_gradients(params, gradients) on the heap
UpdateOnHeap(opt, mem, g) ==
    StoreUpdated(DeepCopy(mem),
                 UpdateParamsWithGradients(opt, Deref(mem.heap, mem.obj), g).params)

\* The parameter sets of the calls of compute_gradients.  Their amplitudes
\* are below the square root of 10, where a loss of six digits still holds
\* the fifth decimal that the step h = 1e-5 changes.
GradientParams ==
    ParamChoices
    \cup {[create_default_parameters(1) EXCEPT !.amplitude = <<Dec(3, 0)>>]}

\* The arguments of TradingParameters(...): the default sets of one and two
\* pairs with n_pairs, one array and sigma replaced.  The entries are an
\* ordinary one, the minimum itself, ones below it and a NaN; the arrays
\* have no, one or two entries.
EntryChoices ==
    {Dec(5, -1), MIN_PARAM_VALUE, Dec(9, -11), FZero, Dec(-1, 0), FNaN}

ArrayChoices ==
    {<<>>} \cup {<<x>> : x \in EntryChoices}
           \cup {<<Dec(5, -1), x>> : x \in EntryChoices}

SigmaChoices == {FZero, Dec(-1, 0), Dec(100001, -5), Dec(-2, 0), FNaN}

ParameterArguments ==
    {[create_default_parameters(n) EXCEPT
          !.n_pairs = k, ![ArrayNames[a]] = xs, !.sigma = sg] :
        n \in 1..2, k \in -1..2, a \in 1..Len(ArrayNames),
        xs \in ArrayChoices, sg \in SigmaChoices}

\* TradingParameters(...)
ParametersCall ==
    /\ NoDirectCalls
    /\ \E p \in ParameterArguments :
          DirectCall("TradingParameters", p, NewTradingParameters(p))

\* The deltas of the perturbations: plus and minus h, and a large one.
DeltaChoices == {FD_STEP, FNeg(FD_STEP), Dec(25, -2)}

\* self._perturb_param(params, param_name, index, delta)
PerturbCall ==
    /\ NoDirectCalls
    /\ \E p \in ParamChoices, k \in 1..Len(ArrayNames), delta \in DeltaChoices :
          \E i \in 1..p.n_pairs :
             DirectCall("_perturb_param",
                        [mem |-> OnHeap(p), name |-> ArrayNames[k], index |-> i,
                         delta |-> delta],
                        PerturbOnHeap(OnHeap(p), ArrayNames[k], i, delta))

\* self._perturb_scalar_param(params, param_name, delta)
PerturbScalarCall ==
    /\ NoDirectCalls
    /\ \E p \in ParamChoices, k \in 1..Len(ScalarNames), delta \in DeltaChoices :
          DirectCall("_perturb_scalar_param",
                     [mem |-> OnHeap(p), name |-> ScalarNames[k], index |-> 0,
                      delta |-> delta],
                     PerturbScalarOnHeap(OnHeap(p), ScalarNames[k], delta))

\* The times of the calls of compute_gradients: before tau, at it and
\* after it.
GradientTimes == {FZero, Dec(5, 0), Dec(6, 0)}

\* self.compute_gradients(hamiltonian, params, t, loss_fn), on the optimizer
\* with the default options
GradientsCall ==
    /\ NoDirectCalls
    /\ \E p \in GradientParams, t \in GradientTimes,
          lf \in {ConstLoss, [kind |-> "ampsq"], [kind |-> "regime"]} :
          DirectCall("compute_gradients",
                     [mem |-> OnHeap(p), t |-> t, loss_fn |-> lf],
                     GradientsOnHeap(optimizer, OnHeap(p), t, lf))

\* The optimizers in their first epoch.
FirstEpoch(opts) == {[o EXCEPT !.t = 1] : o \in opts}

\* self._update_params_with_gradients(params, gradients), on the gradients
\* compute_gradients returns for params
UpdateParamsCall ==
    /\ NoDirectCalls
    /\ \E p \in ParamChoices, t \in GradientTimes,
          opt \in FirstEpoch(OptimizerChoices) :
          DirectCall("_update_params_with_gradients",
                     [mem |-> OnHeap(p), optimizer |-> opt, t |-> t],
                     UpdateOnHeap(opt, OnHeap(p),
                                  ComputeGradients(opt.clip_gradients, p, t,
                                                   [kind |-> "ampsq"], FZero)))

\* The arguments of the constructor of the engine: the integers around the
\* limits 1 and 20 of n_qubits and 1 of time_steps.
QubitChoices == (-1)..22
StepChoices == (-1)..3

\* np.vdot(a, b)
Vdot(a, b) == CSum([k \in 1..Len(a) |-> CMul(CConj(a[k]), b[k])])

\* calculate_trading_signal() on an engine of n qubits in the state given
CalculateTradingSignal(n, cache, state) ==
    FDiv(Vdot(state, MatVec(GetSumOperator(cache, "X", n), state))[1], FInt(n))

\* The parameter set of the scenario: one channel, amplitude 1.0, phase 0.0,
\* decay 0.0, decay_rate 1.0 and every scalar 0, with the frequency given.
ScenarioParameters(frequency) ==
    MkParams(1, <<FOne>>, <<frequency>>, <<FZero>>, <<FZero>>, <<FOne>>,
             [k \in 1..Len(ScalarNames) |-> FZero])

\* The scenario on a new engine of 2 qubits: TradingParameters(...),
\* hamiltonian_operator(0, params), calculate_trading_signal().  The
\* quadrature over [0, 0] returns 0.0.
ScenarioOutcome(made, xi, site) ==
    [built |-> ~made.raised,
     matrix |-> IF made.raised THEN <<>>
                ELSE HamiltonianOperator(2, <<>>, <<>>, FZero, made.instance,
                                         xi, site, TRUE).returned,
     signal |-> CalculateTradingSignal(2, <<>>, BasisState(4, 1))]

\* The frequencies of the scenario: 0.0, the minimum, an ordinary one.
FrequencyChoices == {FZero, MIN_PARAM_VALUE, Dec(1, -1)}

ScenarioCall ==
    /\ NoDirectCalls
    /\ \E f \in FrequencyChoices, xi \in Draws, site \in Sites(2) :
          DirectCall("scenario", [frequency |-> f, xi |-> xi, site |-> site],
                     ScenarioOutcome(NewTradingParameters(ScenarioParameters(f)),
                                     xi, site))

\* hamiltonian_operator(t, p) on a new engine of two qubits, without noise:
\* the parameter sets are the default one and one with a negative eta and
\* a negative gamma; the times are before tau, at it and after it.
RegimeParams ==
    NoNoise({create_default_parameters(2),
             [create_default_parameters(2) EXCEPT !.eta = Dec(-3, -1),
                                                  !.gamma = Dec(-2, 0)]})

RegimeTimes == {FZero, Dec(499, -2), Dec(5, 0), Dec(6, 0)}

OperatorOn(in) ==
    HamiltonianOperator(in.n_qubits, <<>>, <<>>, in.t, in.params, FZero, 0, TRUE)

OperatorDirectCall ==
    /\ NoDirectCalls
    /\ \E q \in RegimeParams, t \in RegimeTimes :
          DirectCall("hamiltonian_operator",
                     [n_qubits |-> 2, t |-> t, params |-> q],
                     OperatorOn([n_qubits |-> 2, t |-> t, params |-> q]))

\* get_optimal_timing(p) on an engine: its outcome and the engine after it.
GetOptimalTimingOn(e, p, state) ==
    [result |-> GetOptimalTiming(e.n_qubits, e.time_steps, e.pauli_cache,
                                 e.state_history, p, state),
     engine |-> [e EXCEPT !.pauli_cache =
                    CacheAfterBuild(e.pauli_cache, e.n_qubits,
                                    FGe(SampleTime(TimingSamples(e.time_steps)), p.tau),
                                    <<>>)]]

\* The engines of the calls: of one qubit and steps time steps, new or
\* after one accepted state.
TimingEngines(steps) ==
    {[n_qubits |-> 1, time_steps |-> steps, quantum_state |-> e[1],
      state_history |-> e[2], pauli_cache |-> <<>>] :
        e \in {<<BasisState(2, 1), <<>> >>,
               <<Scaled(2, 2, <<FZero, FOne>>), <<Scaled(2, 2, <<FZero, FOne>>)>> >>}}

\* The parameter sets: the default one with and without noise, and one
\* whose matrix changes by the same amount from each sample to the next.
SlowParams == ScenarioParameters(MIN_PARAM_VALUE)

TimingParams ==
    {create_default_parameters(1), SlowParams}
    \cup NoNoise({create_default_parameters(1)})

\* The calls, as <<engine, params, state of the generator>>: every one on
\* the engines of one and of three time steps, one on an engine of more
\* time steps than TIMING_SAMPLES.
TimingCalls ==
    (TimingEngines(1) \cup TimingEngines(3)) \X TimingParams \X GeneratorStates
    \cup {<<e, SlowParams, 0>> :
             e \in {f \in TimingEngines(TIMING_SAMPLES + 1) : f.state_history = <<>>}}

TimingDirectCall ==
    /\ NoDirectCalls
    /\ \E c \in TimingCalls :
          DirectCall("get_optimal_timing",
                     [engine |-> c[1], params |-> c[2], state |-> c[3]],
                     GetOptimalTimingOn(c[1], c[2], c[3]))

\* QuantumTradingHamiltonian(n_qubits, time_steps)
EngineCall ==
    /\ NoDirectCalls
    /\ \E n \in QubitChoices, steps \in StepChoices :
          DirectCall("QuantumTradingHamiltonian",
                     [n_qubits |-> n, time_steps |-> steps], NewEngine(n, steps))

\* self._clip_gradients(gradients)
ClipCall ==
    /\ NoDirectCalls
    /\ \E g \in GradientMaps :
          DirectCall("_clip_gradients", g, ClipGradients(g))

InitDirect ==
    InitOptimizer(DefaultOptimizer) /\ ConstructEngine(1, 1) /\ NoDirectCalls
    /\ NoRuns(0)

NextDirect ==
    \/ ClipCall
    \/ ParametersCall
    \/ PerturbCall
    \/ PerturbScalarCall
    \/ GradientsCall
    \/ UpdateParamsCall
    \/ EngineCall
    \/ ScenarioCall
    \/ OperatorDirectCall
    \/ TimingDirectCall

SpecDirect == InitDirect /\ [][NextDirect]_vars

\* ------------------------------------------------------------------------
\* optimize_parameters on the default loss, beside a second run
\* ------------------------------------------------------------------------
\* With loss_fn = None every loss is the norm of a Hamiltonian the engine
\* builds, and every build draws its noise from numpy's global generator.
\* The run on the engine and the optimizer above is taken build by build.
\* A second run, on an engine and an optimizer of its own, is taken epoch by
\* epoch: of its state only its position is kept, and what it does to the
\* generator, the one object the two runs both reach.

MaxDefaultEpochs == 1
MaxOtherEpochs == 1

DefaultLoss == [kind |-> "default"]

DefaultArgs ==
    {[initial_params |-> ip, loss_fn |-> DefaultLoss, max_epochs |-> me,
      convergence_patience |-> DEFAULT_CONVERGENCE_PATIENCE] :
        ip \in {create_default_parameters(1)} \cup NoNoise({create_default_parameters(1)}),
        me \in 1..MaxDefaultEpochs}

\* The parameter set a perturbation of compute_gradients passes to loss_fn.
Perturbed(p, q) ==
    IF q.index = 0 THEN PerturbScalarParam(p, q.name, q.delta)
    ELSE PerturbParam(p, q.name, q.index, q.delta)

PerturbedAll(p, qs) == [k \in 1..Len(qs) |-> Perturbed(p, qs[k])]

\* The parameter sets of the builds of one epoch, in order: the loss of
\* the epoch, then the perturbations of compute_gradients.
BuildInputs(p, t) ==
    <<p>> \o PerturbedAll(p, Perturbations(p.n_pairs, FGe(t, p.tau)))

\* t = epoch * 0.01
EpochTime(ep) == FMul(FInt(ep), Dec(1, -2))

\* np.linalg.norm(H)
NormOfBuild(out) ==
    IF out.raised \/ MatHasNaN(out.returned) THEN FNaN
    ELSE FrobeniusNorm(out.returned)

\* self.t = epoch + 1 and _update_learning_rate
EpochOpening(opt, ep, max_epochs) ==
    [opt EXCEPT !.t = ep + 1,
                !.learning_rate = UpdateLearningRate(opt, ep, max_epochs)]

\* A call that also takes the engine's current state into its history.
BuildRecordingState(out, t, q, state) ==
    /\ pauli_cache' = CacheAfterBuild(pauli_cache, n_qubits, FGe(t, q.tau),
                                      out.assembled)
    /\ last_call' = Call("hamiltonian_operator", TRUE, out.raised, <<>>, t, q, out)
    /\ calls' = calls + 1
    /\ state_history' = Append(state_history, quantum_state)
    /\ UNCHANGED <<n_qubits, time_steps, quantum_state, evolve, rejected, accepted>>

\* One call of hamiltonian_operator by the run, on the engine: the call
\* fills the cache and reads the history.
BuildOnEngine(out, t, q, state) ==
    /\ pauli_cache' = CacheAfterBuild(pauli_cache, n_qubits, FGe(t, q.tau),
                                      out.assembled)
    /\ last_call' = Call("hamiltonian_operator", TRUE, out.raised,
                         [xi |-> NormalDraw(state), site |-> SiteDraw(state, n_qubits),
                          quad_ok |-> TRUE], t, q, out)
    /\ calls' = calls + 1
    /\ UNCHANGED <<n_qubits, time_steps, quantum_state, state_history, evolve,
                   rejected, accepted>>

\* The call from its outcome: the norm is the run's, an exception leaves
\* the run; the first build of an epoch follows self.t = epoch + 1 and
\* _update_learning_rate.
BuildAssign(out, t, q, state) ==
    /\ BuildOnEngine(out, t, q, state)
    /\ rng' = IF out.validated THEN state + DrawsPerBuild ELSE state
    /\ build' = Append(build, [params |-> q, norm |-> NormOfBuild(out)])
    /\ pc' = IF out.raised THEN "raised" ELSE pc
    /\ optimizer' = IF build = NoBuilds
                    THEN EpochOpening(optimizer, epoch, args.max_epochs)
                    ELSE optimizer

BuildOn(t, q, state) ==
    BuildAssign(HamiltonianOperator(n_qubits, pauli_cache, state_history, t, q,
                                    NormalDraw(state), SiteDraw(state, n_qubits),
                                    TRUE),
                t, q, state)

DefaultRunning ==
    pc = "loop" /\ args.loss_fn.kind = "default" /\ epoch < args.max_epochs

DefaultStart ==
    /\ pc = "idle"
    /\ \E a \in DefaultArgs : StartRun(a)
    /\ UNCHANGED <<result, loss_table, engVars, direct_call, runVars>>

\* A state the caller gives the engine before the run.
DefaultUpdate ==
    /\ pc = "idle"
    /\ calls = 0
    /\ \E v \in {Scaled(2 ^ n_qubits, 2, <<FZero, FOne>>),
                 Scaled(2 ^ n_qubits, 1, CReal(Dec(100002, -5)))} : UpdateCall(v)

\* The next call of hamiltonian_operator of the epoch.
DefaultBuild ==
    /\ DefaultRunning
    /\ Len(build) < Len(BuildInputs(params, EpochTime(epoch)))
    /\ BuildOn(EpochTime(epoch), BuildInputs(params, EpochTime(epoch))[Len(build) + 1],
               rng)
    /\ UNCHANGED <<args, epoch, params, loss_history, gradient_norms,
                   learning_rates, best_loss, patience_counter, result,
                   loss_table, direct_call, other>>

\* The rest of the epoch, after its last build.
DefaultEpoch ==
    /\ DefaultRunning
    /\ Len(build) = Len(BuildInputs(params, EpochTime(epoch)))
    /\ EpochAssign(EpochBody(optimizer,
                             [args EXCEPT !.loss_fn = [kind |-> "default",
                                                       norms |-> build]],
                             epoch,
                             Locals(params, loss_history, gradient_norms,
                                    learning_rates, best_loss, patience_counter),
                             build[1].norm),
                   build[1].norm)
    /\ build' = NoBuilds
    /\ UNCHANGED <<args, engVars, direct_call, rng, other>>

\* The second run: its call, and one epoch of it, whose builds draw from
\* the generator as many times as those of the first (its parameter set is
\* the default one of one pair, its times are below tau).
OtherBuilds == Len(BuildInputs(create_default_parameters(1), FZero))

OtherStart ==
    /\ other.pc = "idle"
    /\ \E me \in 1..MaxOtherEpochs :
          other' = [pc |-> "loop", epoch |-> 0, max_epochs |-> me]
    /\ UNCHANGED <<optVars, engVars, direct_call, rng, build>>

OtherEpoch ==
    /\ other.pc = "loop"
    /\ rng' = rng + DrawsPerBuild * OtherBuilds
    /\ other' = [other EXCEPT !.epoch = @ + 1,
                              !.pc = IF other.epoch + 1 = other.max_epochs
                                     THEN "returned" ELSE "loop"]
    /\ UNCHANGED <<optVars, engVars, direct_call, build>>

InitDefault ==
    InitOptimizer(DefaultOptimizer) /\ ConstructEngine(1, 1) /\ NoDirectCalls
    /\ NoRuns(0)

NextDefault ==
    DefaultUpdate \/ DefaultStart \/ DefaultBuild \/ DefaultEpoch \/ OptimizeFinish
    \/ OtherStart \/ OtherEpoch

SpecDefault == InitDefault /\ [][NextDefault]_vars


\* ------------------------------------------------------------------------
\* Behaviours of evolve_state: an engine of one qubit and up to MaxCalls
\* calls of evolve_state, some of them left by the ValueError of a
\* Hamiltonian whose norm exceeds MAX_HAMILTONIAN_NORM.
\* ------------------------------------------------------------------------

\* The engine constructed, as <<n_qubits, time_steps>>
EvolveEngines == {<<1, 2>>}

\* The arguments of the calls: with alpha_0 = 1e12 and dt = 1.0 the step at
\* t = 0 passes and the step at t = 1.0 fails.
EvolveCalls ==
    {<<create_default_parameters(2), Dec(1, -2)>>,
     <<create_default_parameters(2), FOne>>,
     <<LargeAlphaParams, FOne>>}

InitEvolve ==
    /\ NoDirectCalls
    /\ NoRuns(0)
    /\ InitOptimizer(DefaultOptimizer)
    /\ \E e \in EvolveEngines : ConstructEngine(e[1], e[2])

EvolveCall ==
    /\ calls < MaxCalls
    /\ \E c \in EvolveCalls : EvolveStart(c[1], c[2])

EvolveCallStep ==
    /\ evolve.running
    /\ \E draw \in StateDraws(n_qubits) :
          EvolveIteration(draw[1], draw[2], draw[3])

NextEvolve == EvolveCall \/ EvolveCallStep \/ EvolveFinish

SpecEvolve == InitEvolve /\ [][NextEvolve]_vars

\* ------------------------------------------------------------------------
\* Behaviours of the cache: calls of hamiltonian_operator, evolve_state,
\* get_optimal_timing and calculate_trading_signal on one engine, in any
\* order.
\* ------------------------------------------------------------------------

MaxEngineCalls == 2

CacheEngines == {<<1, 2>>, <<2, 1>>}

\* The times of the calls: before tau and after it.
CacheTimes == {FZero, Dec(6, 0)}

CacheOperator ==
    /\ calls < MaxEngineCalls
    /\ \E t \in CacheTimes, state \in GeneratorStates :
          HamiltonianCall(t, create_default_parameters(2), NormalDraw(state),
                          SiteDraw(state + 1, n_qubits), TRUE)

CacheEvolve ==
    /\ calls < MaxEngineCalls
    /\ EvolveStart(create_default_parameters(2), Dec(1, -2))

CacheEvolveStep ==
    /\ evolve.running
    /\ \E state \in GeneratorStates :
        EvolveIteration(NormalDraw(state), SiteDraw(state + 1, n_qubits), TRUE)

\* calculate_trading_signal(): it requests the Pauli-X of every qubit
SignalCall ==
    /\ ~evolve.running
    /\ pauli_cache' = CacheAfter(pauli_cache,
                                 {<<q, "X">> : q \in 0..(n_qubits - 1)}, n_qubits)
    /\ last_call' = Call("calculate_trading_signal", TRUE, FALSE, <<>>, FZero,
                         NoCall.params,
                         [NoiseRaised EXCEPT !.raised = FALSE,
                             !.returned = CalculateTradingSignal(n_qubits, pauli_cache,
                                                                 quantum_state)])
    /\ calls' = calls + 1
    /\ UNCHANGED <<n_qubits, time_steps, quantum_state, state_history, evolve,
                   rejected, accepted, optVars, direct_call, runVars>>

CacheSignal == calls < MaxEngineCalls /\ SignalCall

\* get_optimal_timing(p), from its outcome; its builds have requested
\* every key, the last of them is at the time of the last sample plus dt.
TimingAssign(out, p) ==
    /\ pauli_cache' = CacheAfterBuild(pauli_cache, n_qubits,
                                      FGe(SampleTime(TimingSamples(time_steps)), p.tau),
                                      <<>>)
    /\ last_call' = Call("get_optimal_timing", TRUE, out.raised, <<>>, FZero, p,
                         [NoiseRaised EXCEPT !.raised = out.raised,
                                             !.returned = out])
    /\ calls' = calls + 1
    /\ UNCHANGED <<n_qubits, time_steps, quantum_state, state_history, evolve,
                   rejected, accepted, optVars, direct_call, runVars>>

TimingCall(p, state) ==
    /\ ~evolve.running
    /\ TimingAssign(GetOptimalTiming(n_qubits, time_steps, pauli_cache,
                                     state_history, p, state), p)

CacheTiming ==
    /\ calls < MaxEngineCalls
    /\ \E state \in GeneratorStates :
          TimingCall(create_default_parameters(2), state)

InitCache ==
    /\ NoDirectCalls
    /\ NoRuns(0)
    /\ InitOptimizer(DefaultOptimizer)
    /\ \E e \in CacheEngines : ConstructEngine(e[1], e[2])

NextCache ==
    CacheOperator \/ CacheEvolve \/ CacheEvolveStep \/ EvolveFinish
    \/ CacheSignal \/ CacheTiming

SpecCache == InitCache /\ [][NextCache]_vars

\* ------------------------------------------------------------------------
\* Properties of optimize_parameters
\* ------------------------------------------------------------------------

\* The parameter values of a parameter set: the five arrays, the eleven scalars.
ParamValues(p) ==
    <<p.amplitude, p.frequency, p.phase, p.decay, p.decay_rate,
      p.a, p.b, p.x0, p.alpha_0, p.alpha_1, p.alpha_2,
      p.tau, p.eta, p.gamma, p.sigma, p.beta>>

ConstantLossRun == pc = "returned" /\ args.loss_fn.kind = "const"

\* C1: a run with a constant loss function returns optimized_params whose
\* sixteen parameter values equal those of initial_params.
C1_ConstantLossKeepsParams ==
    ConstantLossRun =>
        ParamValues(result.optimized_params) = ParamValues(args.initial_params)

PatienceWithinEpochs ==
    /\ args.convergence_patience >= 1
    /\ args.max_epochs > args.convergence_patience

\* C2 as stated: a run with a constant loss and max_epochs > patience >= 1
\* returns reason "patience" with epochs = patience and patience entries in
\* loss_history.
C2_PatienceEpochs ==
    (ConstantLossRun /\ PatienceWithinEpochs) =>
        /\ result.convergence_reason = "patience"
        /\ result.epochs = args.convergence_patience
        /\ Len(result.loss_history) = args.convergence_patience

\* C2 amended: a run with a constant loss and max_epochs > patience >= 1
\* that returns a record returns reason "patience" with
\* epochs = patience + 1 and patience + 1 entries in loss_history (the first
\* epoch improves on the initial best loss, infinity, and resets the counter).
C2_PatiencePlusOneEpochs ==
    (ConstantLossRun /\ PatienceWithinEpochs) =>
        /\ result.converged
        /\ result.convergence_reason = "patience"
        /\ result.epochs = args.convergence_patience + 1
        /\ Len(result.loss_history) = args.convergence_patience + 1

C2_Witness ==
    /\ ConstantLossRun
    /\ args.convergence_patience = 2
    /\ args.max_epochs = 3
    /\ result.epochs = 3
    /\ optimizer.use_adam

\* C3: a run whose max_epochs epochs pass without the patience stop ends
\* with a record of converged = False and reason "max_epochs", for every
\* max_epochs >= 0.
C3_EpochsExhaustedReturns ==
    (pc \in {"returned", "raised"} /\ epoch >= args.max_epochs) =>
        /\ pc = "returned"
        /\ ~result.converged
        /\ result.convergence_reason = "max_epochs"

\* C4: the loss_history, gradient_norms and learning_rates of a returned
\* record have the same length, the record's epochs; that length is
\* max_epochs when the reason is not "patience".
C4_HistoriesAligned ==
    pc = "returned" =>
        /\ Len(result.loss_history) = result.epochs
        /\ Len(result.gradient_norms) = result.epochs
        /\ Len(result.learning_rates) = result.epochs
        /\ result.loss_history = loss_history
        /\ result.convergence_reason # "patience" => result.epochs = args.max_epochs

C4_Witness ==
    /\ pc = "returned"
    /\ result.convergence_reason = "max_epochs"
    /\ args = ScenarioArgs
    /\ optimizer.use_adam
    /\ Len(result.loss_history) = SCENARIO_MAX_EPOCHS
    /\ Len(result.gradient_norms) = SCENARIO_MAX_EPOCHS
    /\ Len(result.learning_rates) = SCENARIO_MAX_EPOCHS

\* After every completed epoch the best loss is at most each recorded loss
\* plus the tolerance.
BestBelowHistory ==
    pc \in {"loop", "returned"} =>
        \A i \in 1..Len(loss_history) :
            FLe(best_loss, FAdd(loss_history[i], CONVERGENCE_TOLERANCE))

\* From epoch to epoch of one run the best loss does not increase.
BestNonIncreasing == pc = "loop" => FLe(best_loss', best_loss)

\* C5: during a run the best loss is non-increasing from epoch to epoch
\* and, after every epoch, at most every loss recorded so far plus 1e-6.
C5_BestLossMonotone == [](BestBelowHistory) /\ [][BestNonIncreasing]_vars

C5_Witness ==
    /\ pc \in {"loop", "returned"}
    /\ Len(loss_history) >= 3
    /\ FLt(best_loss, loss_history[1])
    /\ FLt(best_loss, loss_history[Len(loss_history)])


\* The learning rate of an epoch as a function of the scheduler, the initial
\* learning rate, the epoch and max_epochs.
ScheduledRate(kind, lr0, e, max_epochs) ==
    CASE kind = "cosine" ->
           FAdd(MIN_LEARNING_RATE,
                FMul(FMul(FHalf, FSub(lr0, MIN_LEARNING_RATE)),
                     FAdd(FOne, FCos(FDiv(FMul(FPi, FInt(e)), FInt(max_epochs))))))
      [] kind = "exponential" ->
           FMax(FMul(lr0, FExp(FMul(FDiv(FInt(e), FInt(100)), FLog(Dec(95, -2))))),
                MIN_LEARNING_RATE)
      [] OTHER -> lr0

RatesScheduled(opt, lrs, max_epochs) ==
    \A k \in 1..Len(lrs) :
        lrs[k] = ScheduledRate(opt.scheduler_type, opt.initial_learning_rate,
                               k - 1, max_epochs)

SecondRun == direct_call.op = "optimize_parameters"

\* C20: a run of optimize_parameters starts with empty Adam accumulators
\* and the iteration counter 0; the learning rate of epoch e is a function
\* of the initial learning rate, e and max_epochs; the iteration counter of
\* the Adam updates of an epoch is epoch + 1, at least 1; and a second run
\* on the same optimizer, with the same arguments and a deterministic loss,
\* returns the losses, learning rates and parameters of the first.
C20_RunsIndependent ==
    /\ (pc = "loop" /\ epoch = 0) =>
          optimizer.m = <<>> /\ optimizer.v = <<>> /\ optimizer.t = 0
    /\ (pc = "loop" /\ epoch > 0) => optimizer.t = epoch
    /\ pc # "idle" => RatesScheduled(optimizer, learning_rates, args.max_epochs)
    /\ (SecondRun /\ pc = "returned") => result = direct_call.output

\* A second run with Adam over several epochs has returned, on an optimizer
\* that the first run left with accumulators.
C20_Witness ==
    /\ SecondRun
    /\ pc = "returned"
    /\ optimizer.use_adam
    /\ optimizer.m # <<>>
    /\ Len(result.learning_rates) > 1
    /\ result.optimized_params # args.initial_params

\* ------------------------------------------------------------------------
\* Properties of hamiltonian_operator
\* ------------------------------------------------------------------------

\* The matrix A equals its conjugate transpose within the tolerance.
IsHermitian(A) == AllClose(A, ConjT(A))

HamiltonianReturned ==
    last_call.op = "hamiltonian_operator" /\ ~last_call.raised

\* C6: for every valid parameter set and every time t, the matrix that
\* hamiltonian_operator returns is Hermitian within the tolerance.
C6_ReturnedHermitian ==
    (HamiltonianReturned /\ PostInitOK(last_call.params))
        => IsHermitian(last_call.ham.returned)

FailedHermiticityCheck ==
    /\ last_call.op = "hamiltonian_operator"
    /\ last_call.ham.validated
    /\ ~last_call.ham.hermitian

\* C7: when the assembled matrix fails the Hermiticity check of the
\* validation, no error is raised and hamiltonian_operator returns the
\* symmetrized matrix (H + H^dagger) / 2, not the matrix it assembled.
C7_SymmetrizedReturned ==
    FailedHermiticityCheck
        => /\ ~last_call.raised
           /\ last_call.ham.returned = Symmetrized(last_call.ham.assembled)

\* The outcomes of the call of hamiltonian_operator on the same engine, time
\* and parameter set for every value of the random source.
OutcomesOverDraws(c) ==
    {HamiltonianOperator(n_qubits, pauli_cache, state_history, c.t, c.params,
                         xi, site, c.arg.quad_ok) :
        xi \in Draws, site \in Sites(n_qubits)}

HamiltonianCalled == last_call.op = "hamiltonian_operator"

\* C12: with sigma = 0 a call of hamiltonian_operator has the same outcome,
\* and returns the same matrix, for the same time, parameter set and state
\* history, whatever the noise draw and the noise site are.
C12_NoNoiseDeterministic ==
    (HamiltonianCalled /\ last_call.params.sigma = FZero) =>
        OutcomesOverDraws(last_call) = {last_call.ham}

\* A call with sigma = 0 and a state in the history (a noise scale that is
\* not zero) returned a matrix of numbers.
C12_Witness ==
    /\ HamiltonianCalled
    /\ last_call.params.sigma = FZero
    /\ state_history # <<>>
    /\ ~last_call.raised
    /\ ~MatHasNaN(last_call.ham.returned)

\* The call got to _validate_hamiltonian with a matrix of numbers whose norm
\* is above MAX_HAMILTONIAN_NORM.
AssembledTooLarge ==
    /\ HamiltonianCalled
    /\ last_call.ham.validated
    /\ NormTooLarge(last_call.ham.assembled)

\* C15: when the norm of the assembled matrix exceeds 1e10 the call of
\* hamiltonian_operator ends in an error and returns no matrix.
C15_LargeNormAborts ==
    AssembledTooLarge => last_call.raised

\* The outcome of the same call with a quadrature that succeeds.
WithQuadrature(c) ==
    HamiltonianOperator(n_qubits, pauli_cache, state_history, c.t, c.params,
                        c.arg.xi, c.arg.site, TRUE)

\* x differs from y by d, within the rounding of the sums.
DiffersBy(x, y, d) == FLe(CAbs(CSub(CSub(x, y), d)), Dec(1, -3))

\* The matrix A is the matrix B with c * op in the place of d * op.
TermReplaced(A, B, c, d, op) ==
    /\ Len(A) = Len(B)
    /\ \A i, j \in 1..Len(A) :
          DiffersBy(A[i][j], B[i][j], CMul(CReal(FSub(c, d)), op[i][j]))

IsSquare(A, d) == Len(A) = d /\ \A i \in 1..d : Len(A[i]) = d

\* What a call whose quadrature failed shares with the call whose quadrature
\* succeeded (ok): the same end of the noise draw, the same terms but for
\* the integral's.
FallsBack(c, ok) ==
    /\ c.ham.validated = ok.validated
    /\ (c.ham.validated /\ ~MatHasNaN(ok.assembled)) =>
          TermReplaced(c.ham.assembled, ok.assembled,
                       Softplus(FieldArgument(c.params, c.t)),
                       ComputeSoftplusIntegral(c.t, c.params),
                       GetSumOperator(pauli_cache, "X", n_qubits))
    /\ c.raised = (~c.ham.validated \/ NormTooLarge(c.ham.symmetrized))
    /\ ~c.raised => IsSquare(c.ham.returned, 2 ^ n_qubits)

QuadratureFailed == HamiltonianCalled /\ ~last_call.arg.quad_ok

\* C16: a failure of the quadrature does not end hamiltonian_operator: the
\* integral term is softplus(a * (t - x0)^2 + b) times the sum of the X
\* operators, the other terms are those of a call whose quadrature
\* succeeds, the validation runs, and a matrix of 2^n rows and columns is
\* returned unless the noise draw or the validation raises.
C16_QuadratureFailureFallsBack ==
    QuadratureFailed => FallsBack(last_call, WithQuadrature(last_call))

\* A call whose quadrature failed returned a matrix whose integral term is
\* not the integral.
C16_Witness ==
    /\ QuadratureFailed
    /\ ~last_call.raised
    /\ ~MatHasNaN(last_call.ham.returned)
    /\ last_call.ham.returned # WithQuadrature(last_call).returned

\* ------------------------------------------------------------------------
\* Properties of the state and its history
\* ------------------------------------------------------------------------

\* |<v|v> - 1| is within the normalization tolerance
WithinTolerance(v) ==
    /\ ~HasNaN(v)
    /\ FLe(FAbs(FSub(SquaredNorm(v), FOne)), QUANTUM_PRECISION_TOLERANCE)

\* C8: in every reachable state of an engine, after any calls of
\* evolve_state and update_quantum_state and after every step of
\* evolve_state, the current state vector and every vector of the history
\* are normalized within the tolerance.
C8_StatesNormalized ==
    /\ WithinTolerance(quantum_state)
    /\ \A i \in 1..Len(state_history) : WithinTolerance(state_history[i])

\* The step is a call of update_quantum_state by a caller of the engine.
UpdateCalled ==
    calls' = calls + 1 /\ last_call'.op = "update_quantum_state"

\* The squared norm of v differs from 1 by more than the tolerance.
OffNorm(v) ==
    ~HasNaN(v) /\ FGt(FAbs(FSub(SquaredNorm(v), FOne)), QUANTUM_PRECISION_TOLERANCE)

RejectedUnchanged ==
    (UpdateCalled /\ OffNorm(last_call'.arg))
        => /\ last_call'.raised
           /\ quantum_state' = quantum_state
           /\ state_history' = state_history

AcceptedAfterRejection ==
    (UpdateCalled /\ rejected > 0 /\ WithinTolerance(last_call'.arg))
        => /\ ~last_call'.raised
           /\ quantum_state' = last_call'.arg
           /\ state_history' = Append(state_history, last_call'.arg)

\* C9: update_quantum_state with a vector whose squared norm differs from 1
\* by more than the tolerance raises and leaves the current state and the
\* history as they were; updates with a valid vector after it are accepted.
C9_RejectedUpdateLeavesState ==
    [][RejectedUnchanged /\ AcceptedAfterRejection]_vars

\* An update was rejected on an engine with a history, and a later one
\* accepted.
C9_Witness ==
    /\ rejected > 0
    /\ last_call.op = "update_quantum_state"
    /\ ~last_call.raised
    /\ quantum_state = last_call.arg
    /\ quantum_state # BasisState(2 ^ n_qubits, 1)

\* The last k entries of the sequence xs
LastOf(xs, k) == SubSeq(xs, Len(xs) - k + 1, Len(xs))

\* C10: after k accepted updates the history holds the min(k, 1000) most
\* recent accepted vectors in the order of acceptance, its last entry is
\* the current state vector, and its length is at most 1000.
C10_HistoryMostRecent ==
    /\ state_history = LastOf(accepted, IMin(Len(accepted), HISTORY_LIMIT))
    /\ Len(state_history) <= HISTORY_LIMIT
    /\ Len(accepted) > 0 => state_history[Len(state_history)] = quantum_state

\* More than 1000 updates were accepted and the oldest were dropped.
C10_Witness ==
    /\ Len(accepted) > HISTORY_LIMIT
    /\ Len(state_history) = HISTORY_LIMIT
    /\ state_history[1] # accepted[1]
    /\ rejected > 0


\* ------------------------------------------------------------------------
\* Properties of the methods called by themselves
\* ------------------------------------------------------------------------

\* The L2 norm over all the entries of a gradient dictionary, as a number.
L2Norm(g) == FSqrt(FSum([k \in 1..Len(GradValues(g)) |-> SumOfSquares(GradValues(g)[k])]))

AtThreshold(x) == FLe(FAbs(FSub(x, GRADIENT_CLIP_THRESHOLD)), Dec(1, -3))

\* What clipping by the global norm is to return for g of the norm given.
ClippedAsStated(g, out, norm) ==
    IF FGt(norm, GRADIENT_CLIP_THRESHOLD)
    THEN /\ out = ScaleGradients(g, FDiv(GRADIENT_CLIP_THRESHOLD, norm))
         /\ AtThreshold(L2Norm(out))
    ELSE out = g

\* C11: _clip_gradients multiplies every component by 10.0 / norm when the
\* global L2 norm of the gradient map is above 10.0, so that the norm of the
\* result is 10.0, and returns the map unchanged when the norm is at most
\* 10.0, for any gradient map.
C11_ClipsToThreshold ==
    direct_call.op = "_clip_gradients" =>
        ClippedAsStated(direct_call.input, direct_call.output,
                        L2Norm(direct_call.input))

\* The conditions on the arguments of TradingParameters, read as comparisons
\* of numbers: an entry below the minimum, |sigma| above the maximum.
AnyBelow(xs, lo) == \E i \in 1..Len(xs) : xs[i] # FNaN /\ FLt(xs[i], lo)

LengthMismatch(p) == \E k \in 1..Len(ArrayNames) : Len(p[ArrayNames[k]]) # p.n_pairs

Checked(p) == <<p.amplitude, p.frequency, p.decay_rate>>

StatedFailure(p) ==
    \/ p.n_pairs <= 0
    \/ LengthMismatch(p)
    \/ \E k \in 1..3 : AnyBelow(Checked(p)[k], MIN_PARAM_VALUE)
    \/ p.sigma # FNaN /\ FGt(FAbs(p.sigma), MAX_NOISE_AMPLITUDE)

\* A checked entry or sigma is NaN.
NaNChecked(p) ==
    \/ \E k \in 1..3 : \E i \in 1..Len(Checked(p)[k]) : Checked(p)[k][i] = FNaN
    \/ p.sigma = FNaN

ParametersCalled == direct_call.op = "TradingParameters"

\* C13: constructing a TradingParameters fails, and produces no instance,
\* whenever n_pairs <= 0, an array has a length other than n_pairs, an
\* amplitude, frequency or decay_rate entry is below 1e-10 or |sigma| > 1.0,
\* and succeeds for every other input.
C13_FailsExactlyAsStated ==
    ParametersCalled =>
        /\ direct_call.output.raised = StatedFailure(direct_call.input)
        /\ direct_call.output.raised = (direct_call.output.instance = <<>>)

\* C13 as it holds: construction fails exactly when one of the conditions
\* stated holds or a checked entry or sigma is NaN (no comparison with a NaN
\* is true, so the assertion on it fails).
C13_FailsAlsoOnNaN ==
    ParametersCalled =>
        /\ direct_call.output.raised =
              (StatedFailure(direct_call.input) \/ NaNChecked(direct_call.input))
        /\ direct_call.output.raised = (direct_call.output.instance = <<>>)

\* A construction that failed on a NaN alone.
C13_Witness ==
    /\ ParametersCalled
    /\ direct_call.output.raised
    /\ NaNChecked(direct_call.input)
    /\ ~StatedFailure(direct_call.input)

\* The arrays that were on the heap before the call hold what they held.
OldArraysKept(before, after) ==
    /\ Len(after.heap) >= Len(before.heap)
    /\ \A a \in 1..Len(before.heap) : after.heap[a] = before.heap[a]

\* The instance after holds no array of the instance before.
NoArrayShared(before, after) ==
    \A f, g \in GradArrays : after.obj[f] # before.obj[g]

\* The values of mem.obj differ from those of p in the entry i of the array
\* name (i = 0: in the scalar name) and nowhere else, and there by delta.
OneEntryMoved(p, q, name, i, delta) ==
    /\ \A f \in DOMAIN p : f # name => q[f] = p[f]
    /\ IF i = 0 THEN q[name] = FAdd(p[name], delta)
       ELSE /\ Len(q[name]) = Len(p[name])
            /\ \A j \in 1..Len(p[name]) :
                  q[name][j] = IF j = i THEN FAdd(p[name][j], delta) ELSE p[name][j]

PerturbCalled == direct_call.op \in {"_perturb_param", "_perturb_scalar_param"}

NewInstanceCalled ==
    PerturbCalled \/ direct_call.op = "_update_params_with_gradients"

\* C14: compute_gradients and _update_params_with_gradients leave the
\* parameter set they are given as it was: a perturbation and an update
\* return a new instance none of whose arrays is an array of the original,
\* the perturbed copy differs from the original in the targeted entry alone,
\* by delta, and after the call the arrays and scalars of the original are
\* what they were.
C14_ParametersNotMutated ==
    /\ NewInstanceCalled =>
          /\ OldArraysKept(direct_call.input.mem, direct_call.output)
          /\ NoArrayShared(direct_call.input.mem, direct_call.output)
    /\ PerturbCalled =>
          OneEntryMoved(Deref(direct_call.input.mem.heap, direct_call.input.mem.obj),
                        Deref(direct_call.output.heap, direct_call.output.obj),
                        direct_call.input.name, direct_call.input.index,
                        direct_call.input.delta)
    /\ direct_call.op = "compute_gradients" =>
          /\ OldArraysKept(direct_call.input.mem, direct_call.output)
          /\ direct_call.output.obj = direct_call.input.mem.obj

\* compute_gradients has perturbed a set of two channels after tau, and left
\* the copies on the heap.
C14_Witness ==
    /\ direct_call.op = "compute_gradients"
    /\ direct_call.input.mem.obj.n_pairs = 2
    /\ FGe(direct_call.input.t, direct_call.input.mem.obj.tau)
    /\ Len(direct_call.output.heap) > Len(direct_call.input.mem.heap)

EngineCalled == direct_call.op = "QuantumTradingHamiltonian"

\* The vector e of dimension d has a 1 at index 0 and 0 elsewhere.
IsIndexZeroBasis(e, d) ==
    e.dim = d /\ DOMAIN e.nonzero = {0} /\ e.nonzero[0] = COne

\* The fields of a constructed engine of n qubits.
FreshEngine(e, n) ==
    /\ e.hilbert_dim = 2 ^ n
    /\ IsIndexZeroBasis(e.quantum_state, 2 ^ n)
    /\ e.state_history = <<>>
    /\ e.pauli_cache = <<>>

WithinLimits(a) == 1 <= a.n_qubits /\ a.n_qubits <= 20 /\ a.time_steps >= 1

\* C17: the construction of an engine succeeds exactly when
\* 1 <= n_qubits <= 20 and time_steps >= 1; the engine constructed has
\* dimension 2^n_qubits, the index-0 basis vector as its state, an empty
\* history and an empty cache of operators.
C17_EngineConstruction ==
    EngineCalled =>
        /\ direct_call.output.raised = ~WithinLimits(direct_call.input)
        /\ ~direct_call.output.raised =>
              FreshEngine(direct_call.output, direct_call.input.n_qubits)

\* An engine of 20 qubits was constructed.
C17_Witness ==
    /\ EngineCalled
    /\ direct_call.input.n_qubits = 20
    /\ ~direct_call.output.raised
    /\ direct_call.output.hilbert_dim = 1024 * 1024

ScenarioCalled == direct_call.op = "scenario"

\* The parameter set was built, the matrix at t = 0 is the 4 x 4 zero matrix
\* and the signal of the new engine is 0.
ZeroScenario(out) ==
    out.built /\ out.matrix = MZero(4) /\ out.signal = FZero

\* C18: in the scenario of 2 qubits and one channel with amplitude 1.0,
\* frequency 0.0, phase 0.0, decay 0.0, decay_rate 1.0 and every scalar 0,
\* the parameter set can be built, hamiltonian_operator(0, params) is the
\* 4 x 4 zero matrix and calculate_trading_signal on the new engine is 0.
C18_ZeroFrequencyScenario ==
    (ScenarioCalled /\ direct_call.input.frequency = FZero) =>
        ZeroScenario(direct_call.output)

\* C18 as it holds: the parameter set of the scenario is built exactly when
\* its frequency is at least 1e-10, which 0.0 is not; when it is built,
\* hamiltonian_operator(0, params) is the 4 x 4 zero matrix, and
\* calculate_trading_signal on the new engine is 0.
C18_ValidFrequencyScenario ==
    ScenarioCalled =>
        /\ direct_call.output.built =
              FGe(direct_call.input.frequency, MIN_PARAM_VALUE)
        /\ direct_call.output.built => ZeroScenario(direct_call.output)
        /\ direct_call.output.signal = FZero

\* The scenario with a frequency of 0.1 gave the zero matrix.
C18_Witness ==
    /\ ScenarioCalled
    /\ direct_call.input.frequency = Dec(1, -1)
    /\ ZeroScenario(direct_call.output)

\* compute_gradients was called with the loss sum(amplitude ** 2).
QuadraticLossCalled ==
    /\ direct_call.op = "compute_gradients"
    /\ direct_call.input.loss_fn.kind = "ampsq"

\* The global norm of the gradients of the call before the clipping.
RawNorm(c) ==
    GlobalNorm(ComputeGradients(FALSE, Deref(c.mem.heap, c.mem.obj), c.t,
                                c.loss_fn, FZero))

\* Every entry of grad is within 1e-4 of scale * 2 * amplitude_i.
NearTwiceAmplitude(grad, amplitude, scale) ==
    \A i \in 1..Len(amplitude) :
        FLe(FAbs(FSub(grad[i], FMul(FMul(FTwo, amplitude[i]), scale))),
            Dec(1, -4))

\* The factor of the clipping for the norm given.
FactorFor(norm) ==
    IF FGt(norm, GRADIENT_CLIP_THRESHOLD)
    THEN FDiv(GRADIENT_CLIP_THRESHOLD, norm) ELSE FOne

\* C19: for the loss sum(amplitude_i ** 2) the 'amplitude' entry that
\* compute_gradients returns is within 1e-4 of 2 * amplitude_i for every
\* channel, every valid parameter set and every time t.
C19_AmplitudeGradient ==
    QuadraticLossCalled =>
        NearTwiceAmplitude(direct_call.output.gradients.amplitude,
                           direct_call.input.mem.heap[1], FOne)

\* C19 as it holds: the entry is within 1e-4 of 2 * amplitude_i when the
\* global norm of the gradients is at most 10.0; above it the gradients are
\* clipped and the entry is within 1e-4 of 2 * amplitude_i * 10.0 / norm.
C19_AmplitudeGradientClipped ==
    QuadraticLossCalled =>
        NearTwiceAmplitude(direct_call.output.gradients.amplitude,
                           direct_call.input.mem.heap[1],
                           FactorFor(RawNorm(direct_call.input)))

\* A call for two channels whose gradients were not clipped.
C19_Witness ==
    /\ QuadraticLossCalled
    /\ direct_call.input.mem.obj.n_pairs = 2
    /\ FLe(RawNorm(direct_call.input), GRADIENT_CLIP_THRESHOLD)
    /\ direct_call.output.gradients.amplitude = <<FOne, FOne>>

\* ------------------------------------------------------------------------
\* Properties of the runs on the default loss
\* ------------------------------------------------------------------------

DefaultRun == args.loss_fn.kind = "default"

\* Every entry of the cache before the step is in the cache after it,
\* with the same matrix.
CacheGrows ==
    \A key \in DOMAIN pauli_cache :
        key \in DOMAIN pauli_cache' /\ pauli_cache'[key] = pauli_cache[key]

\* C21: no step from the call of optimize_parameters on, and so none of
\* compute_gradients, changes the engine's current state vector or its state history; of the
\* engine's data only the basis-operator cache changes, and it only gains
\* entries.
C21_OptimizerKeepsEngineState ==
    [][pc' # "idle" =>
          /\ quantum_state' = quantum_state
          /\ state_history' = state_history
          /\ CacheGrows]_vars

\* A run on the default loss has returned, on an engine that had accepted a
\* state before it; its builds have filled the cache.
C21_Witness ==
    /\ pc = "returned"
    /\ DefaultRun
    /\ calls > Len(BuildInputs(args.initial_params, FZero))
    /\ DOMAIN pauli_cache = AllPauliKeys(n_qubits)
    /\ state_history = <<quantum_state>>
    /\ quantum_state # BasisState(2 ^ n_qubits, 1)

\* The state of the generator at the build k (from 1) of the epoch ep of a
\* run that executes alone, from the seed 0: every build before it is the
\* run's own.
AloneState(p, ep, k) ==
    DrawsPerBuild * (ep * Len(BuildInputs(p, EpochTime(ep))) + (k - 1))

\* The norm the build k of the running epoch gets when the run executes
\* alone.
AloneNorm(k) ==
    NormOfBuild(HamiltonianOperator(n_qubits, pauli_cache, state_history,
                                    EpochTime(epoch), build[k].params,
                                    NormalDraw(AloneState(params, epoch, k)),
                                    SiteDraw(AloneState(params, epoch, k), n_qubits),
                                    TRUE))

\* C26: two optimization runs on separate engines and optimizers share no
\* mutable state: however the builds and epochs of the second run fall
\* between those of the first, every loss and every perturbed loss
\* the first run gets is the one it gets when it executes alone, and so are
\* its histories, its moments and its final parameters.
C26_RunsShareNothing ==
    (DefaultRun /\ build # NoBuilds) =>
        build[Len(build)].norm = AloneNorm(Len(build))

\* GRADIENT_CLIP_THRESHOLD with the rounding of the scaled gradients
ThresholdWithinRounding == FAdd(GRADIENT_CLIP_THRESHOLD, Dec(1, -3))

\* C27: with gradient clipping enabled every value optimize_parameters
\* records in gradient_norms is at most 10.0 within rounding: it is the
\* norm of the gradients compute_gradients returns, after their clipping.
C27_RecordedNormsClipped ==
    (pc # "idle" /\ optimizer.clip_gradients) =>
        \A k \in 1..Len(gradient_norms) :
            FLe(gradient_norms[k], ThresholdWithinRounding)

\* A run on the noisy default loss has returned: the gradients of its epoch
\* were clipped, the norm it recorded is the threshold within rounding.
C27_Witness ==
    /\ DefaultRun
    /\ optimizer.clip_gradients
    /\ pc = "returned"
    /\ args.initial_params.sigma # FZero
    /\ FGt(result.gradient_norms[1], Dec(9999, -3))
    /\ FLe(result.gradient_norms[1], ThresholdWithinRounding)

\* The parameters after the updates of the epochs e, ..., n - 1 of a run
\* with the arguments a, from the optimizer opt and the parameters p at the
\* start of epoch e; lh holds the loss of each epoch.  before is the
\* parameter set the last of the updates was applied to.
RECURSIVE Replay(_, _, _, _, _, _, _)

ReplayUpdate(upd, p, e, n, a, lh) ==
    Replay(upd.optimizer, upd.params, p, e + 1, n, a, lh)

ReplayEpoch(opt1, p, e, n, a, lh) ==
    ReplayUpdate(UpdateParamsWithGradients(
                     opt1, p,
                     ComputeGradients(opt1.clip_gradients, p, EpochTime(e),
                                      a.loss_fn, lh[e + 1])),
                 p, e, n, a, lh)

Replay(opt, p, before, e, n, a, lh) ==
    IF e >= n THEN [params |-> p, before |-> before]
    ELSE ReplayEpoch(EpochOpening(opt, e, a.max_epochs), p, e, n, a, lh)

\* The record r is the one the claim describes, for the parameters replayed.
RecordAsStated(r, a, replayed) ==
    /\ r.epochs >= 1
    /\ Len(r.loss_history) = r.epochs
    /\ r.final_loss = r.loss_history[r.epochs]
    /\ r.optimized_params = replayed.params
    /\ r.final_loss = LossFn(a.loss_fn, replayed.before, r.final_loss)

\* C28: a record optimize_parameters returns, by the early return or after
\* the loop, has final_loss equal to the last entry of loss_history, the
\* loss of the parameters before the last update, and optimized_params
\* equal to initial_params after exactly `epochs` successive updates.
C28_RecordOfLastEpoch ==
    (pc = "returned" /\ args.loss_fn.kind # "default") =>
        RecordAsStated(result, args,
                       Replay(ResetAdam(optimizer), args.initial_params,
                              args.initial_params, 0, result.epochs, args,
                              result.loss_history))

\* A run of three epochs on the loss sum(amplitude ** 2) has returned: its
\* losses fall, final_loss is the last and the least of them, and it is not
\* the loss of the parameters returned.
C28_Witness ==
    /\ pc = "returned"
    /\ args.loss_fn.kind = "ampsq"
    /\ result.epochs = MaxEpochsBound
    /\ result.final_loss = result.loss_history[MaxEpochsBound]
    /\ FLt(result.final_loss, result.loss_history[1])
    /\ result.final_loss # LossFn(args.loss_fn, result.optimized_params, FZero)

\* The bounds __post_init__ asserts on the values an update can move.
WithinBounds(p) ==
    /\ AllGe(p.amplitude, MIN_PARAM_VALUE)
    /\ AllGe(p.frequency, MIN_PARAM_VALUE)
    /\ AllGe(p.decay_rate, MIN_PARAM_VALUE)
    /\ FLe(FAbs(p.sigma), MAX_NOISE_AMPLITUDE)

\* The step of an epoch, for the update upd that the epoch computes: the
\* values of upd become the parameters when they are within the bounds,
\* and otherwise the run is aborted with no record and no new parameters.
UpdatesOrAborts(upd) ==
    IF WithinBounds(upd.params)
    THEN pc' # "raised" /\ params' = upd.params
    ELSE pc' = "raised" /\ params' = params /\ result' = result

\* The update of the epoch that starts in this state and records loss.
UpdateOfEpoch(opt1, loss) ==
    UpdateParamsWithGradients(
        opt1, params,
        ComputeGradients(opt1.clip_gradients, params, EpochTime(epoch),
                         args.loss_fn, loss))

\* C29: the parameters of every record optimize_parameters returns are
\* within the bounds of __post_init__ (amplitude, frequency and decay_rate
\* entries >= 1e-10, |sigma| <= 1.0), and an epoch whose update leaves the
\* bounds aborts the run with no record, neither clamping nor continuing.
C29_ReturnedParamsValidated ==
    [][/\ pc' = "returned" => WithinBounds(result'.optimized_params)
       /\ (pc = "loop" /\ epoch < args.max_epochs
             /\ args.loss_fn.kind # "default") =>
            UpdatesOrAborts(
                UpdateOfEpoch(EpochOpening(optimizer, epoch, args.max_epochs),
                              loss_history'[epoch + 1]))]_vars

\* A run has been aborted in its second epoch or later, on an amplitude
\* below 1e-10, with no record, its parameters those of the epoch before.
C29_Witness ==
    /\ pc = "raised"
    /\ epoch >= 1
    /\ epoch < args.max_epochs
    /\ result = NoResult
    /\ WithinBounds(params)
    /\ Len(loss_history) = epoch + 1
    /\ FLt(params.amplitude[1], args.initial_params.amplitude[1])

\* ------------------------------------------------------------------------
\* Properties of evolve_state
\* ------------------------------------------------------------------------

\* Nothing accepted is taken back: the current state is the last state
\* accepted (the index-0 basis vector before the first), the history ends
\* with the states accepted, and a running call has accepted one state for
\* each of its steps so far.
NothingTakenBack ==
    /\ quantum_state = IF accepted = <<>> THEN BasisState(2 ^ n_qubits, 1)
                       ELSE accepted[Len(accepted)]
    /\ Len(state_history) <= Len(accepted)
    /\ state_history = LastOf(accepted, Len(state_history))
    /\ evolve.running =>
         /\ evolve.step <= Len(accepted)
         /\ evolve.step <= Len(state_history) \/ Len(state_history) = HISTORY_LIMIT

EngineStateKept ==
    /\ quantum_state' = quantum_state
    /\ state_history' = state_history
    /\ accepted' = accepted

\* The state of step `step` of a call with the arguments of ev, from the
\* state `state`, is one of those the draws of the step allow.
StepFrom(ev, state, new_state) ==
    \E draw \in StateDraws(n_qubits) :
       new_state =
         EvolvedState(HamiltonianOperator(n_qubits, pauli_cache, state_history,
                                          FMul(FInt(ev.step), ev.dt), ev.params,
                                          draw[1], draw[2], draw[3]).returned,
                      ev.dt, state)

\* The steps of evolve_state: the call starts at step 0 on the engine's
\* state as it is; each iteration accepts one state, computed at
\* t = step * dt from the current state; a failure leaves the state, the
\* history and the states accepted as they are; the call returns after
\* time_steps iterations.
EvolveCommits ==
    /\ (~evolve.running /\ evolve'.running) =>
          evolve'.step = 0 /\ EngineStateKept
    /\ (evolve.running /\ evolve'.running) =>
          /\ evolve'.step = evolve.step + 1
          /\ accepted' = Append(accepted, quantum_state')
          /\ StepFrom(evolve, quantum_state, quantum_state')
    /\ (evolve.running /\ ~evolve'.running /\ last_call'.raised) =>
          evolve.step < time_steps /\ EngineStateKept
    /\ (evolve.running /\ ~evolve'.running /\ ~last_call'.raised) =>
          evolve.step = time_steps /\ EngineStateKept

\* C30: evolve_state commits one step at a time and never rolls back: after
\* a failure at step k the states accepted at steps 0..k-1 stay in the
\* history and the current state is that of step k-1; a later call goes on
\* from the engine's current state with its time restarted at 0; a
\* completed call has added exactly time_steps accepted states.
C30_EvolveCommitsSteps == []NothingTakenBack /\ [][EvolveCommits]_vars

\* A second call of evolve_state has failed at its step 1, after a first
\* call that completed: the state its step 0 accepted is the current state
\* and the last of the history, after those of the first call.
C30_Witness ==
    /\ ~evolve.running
    /\ last_call.op = "evolve_state"
    /\ last_call.raised
    /\ calls = 2
    /\ Len(accepted) = time_steps + 1
    /\ quantum_state = accepted[time_steps + 1]
    /\ state_history = accepted
    /\ quantum_state # BasisState(2 ^ n_qubits, 1)

\* ------------------------------------------------------------------------
\* Properties of the cache
\* ------------------------------------------------------------------------

\* Every cached entry is the operator constructed for its key.
CacheHoldsConstructed ==
    \A key \in DOMAIN pauli_cache :
        pauli_cache[key] = ConstructPauli(key[2], key[1], n_qubits)

\* C22: the cache only grows, no step removes an entry or changes its
\* matrix, and after any sequence of calls of hamiltonian_operator,
\* evolve_state, get_optimal_timing and calculate_trading_signal every entry
\* equals the operator constructed for its key.
C22_CacheOnlyGrows == [][CacheGrows /\ CacheHoldsConstructed']_vars

\* Two calls on an engine of two qubits, the second a call that reads the
\* cache the first has filled.
C22_Witness ==
    /\ n_qubits = 2
    /\ calls = MaxEngineCalls
    /\ DOMAIN pauli_cache = AllPauliKeys(2)
    /\ last_call.op \in {"calculate_trading_signal", "get_optimal_timing"}
    /\ CacheHoldsConstructed

\* ------------------------------------------------------------------------
\* Properties of the histories of optimize_parameters
\* ------------------------------------------------------------------------

\* The values are between lo and hi and none is above the one before it.
NonIncreasingWithin(xs, lo, hi) ==
    /\ \A k \in 1..Len(xs) : FLe(lo, xs[k]) /\ FLe(xs[k], hi)
    /\ \A k \in 2..Len(xs) : FLe(xs[k], xs[k - 1])

\* 0.95 ** (e / 100)
DecayFactor(e) == FExp(FMul(FDiv(FInt(e), FInt(100)), FLog(Dec(95, -2))))

\* The half-cosine from hi at 0 toward lo at 1, at the fraction e / n.
HalfCosine(lo, hi, e, n) ==
    FAdd(lo, FMul(FMul(FHalf, FSub(hi, lo)),
                  FAdd(FOne, FCos(FDiv(FMul(FPi, FInt(e)), FInt(n))))))

\* The learning rates lrs are those the scheduler kind prescribes for the
\* epochs 0, 1, ... of a run of max_epochs epochs from the rate lr0.
AsPrescribed(kind, lrs, lr0, max_epochs) ==
    CASE kind = "cosine" ->
           /\ Len(lrs) > 0 => lrs[1] = lr0
           /\ \A k \in 1..Len(lrs) :
                 lrs[k] = HalfCosine(MIN_LEARNING_RATE, lr0, k - 1, max_epochs)
      [] kind = "exponential" ->
           \A k \in 1..Len(lrs) :
              lrs[k] = FMax(FMul(lr0, DecayFactor(k - 1)), MIN_LEARNING_RATE)
      [] OTHER -> \A k \in 1..Len(lrs) : lrs[k] = lr0

\* C23: the learning rates a run records lie between MIN_LEARNING_RATE and
\* the initial learning rate, none is above the one before it, and they are
\* the ones the scheduler prescribes: the half-cosine from the initial rate
\* for "cosine", max(initial * 0.95 ** (epoch / 100), 1e-6) for
\* "exponential", the initial rate for "constant".
C23_LearningRatesScheduled ==
    pc # "idle" =>
        /\ NonIncreasingWithin(learning_rates, MIN_LEARNING_RATE,
                               optimizer.initial_learning_rate)
        /\ AsPrescribed(optimizer.scheduler_type, learning_rates,
                        optimizer.initial_learning_rate, args.max_epochs)

\* A run of a cosine scheduler has returned three rates, each below the one
\* before it.
C23_Witness ==
    /\ pc = "returned"
    /\ optimizer.scheduler_type = "cosine"
    /\ Len(result.learning_rates) = MaxEpochsBound
    /\ result.learning_rates = learning_rates
    /\ \A k \in 2..Len(learning_rates) : FLt(learning_rates[k], learning_rates[k - 1])

\* ------------------------------------------------------------------------
\* Properties of the regime term
\* ------------------------------------------------------------------------

\* The matrix hamiltonian_operator assembles for the call with eta = 0.
WithoutRegime(in) == OperatorOn([in EXCEPT !.params.eta = FZero]).assembled

\* eta * sigmoid(gamma) times the sum of the products of adjacent Pauli-X
StatedRegimeTerm(p, n) ==
    MScale(CReal(FMul(p.eta, Sigmoid(p.gamma))), GetRegimeOperator(<<>>, n))

\* The assembled matrix H is the one without the regime term when t < tau,
\* and that matrix plus the stated term when t >= tau.
RegimeAsStated(in, H) ==
    H = IF FLt(in.t, in.params.tau) THEN WithoutRegime(in)
        ELSE MAdd(WithoutRegime(in), StatedRegimeTerm(in.params, in.n_qubits))

\* (loss_fn(p with name + h) - loss_fn(p with name - h)) / (2 * h)
Estimate(lf, p, name) ==
    FDiv(FSub(LossFn(lf, [p EXCEPT ![name] = FAdd(@, FD_STEP)], FZero),
              LossFn(lf, [p EXCEPT ![name] = FSub(@, FD_STEP)], FZero)),
         FMul(FTwo, FD_STEP))

\* The entries of tau, eta and gamma in the gradients g of a call at time t
\* on the parameters p: 0 when t < tau, the estimates times the factor of
\* the clipping otherwise.
RegimeGradientsAsStated(g, lf, p, t, factor) ==
    /\ {"tau", "eta", "gamma"} \subseteq DOMAIN g
    /\ \A name \in {"tau", "eta", "gamma"} :
          g[name] = IF FLt(t, p.tau) THEN FZero
                    ELSE FMul(Estimate(lf, p, name), factor)

\* C24: hamiltonian_operator adds the regime term only when t >= tau, with
\* the coefficient eta * sigmoid(gamma) whatever t - tau is, and adds
\* nothing when t < tau; compute_gradients returns an entry for each of tau,
\* eta and gamma, exactly 0 when t < tau and the finite-difference estimate
\* (scaled with the other gradients when they are clipped) when t >= tau.
C24_RegimeTermAndGradients ==
    /\ direct_call.op = "hamiltonian_operator" =>
          RegimeAsStated(direct_call.input, direct_call.output.assembled)
    /\ direct_call.op = "compute_gradients" =>
          RegimeGradientsAsStated(direct_call.output.gradients,
                                  direct_call.input.loss_fn,
                                  Deref(direct_call.input.mem.heap,
                                        direct_call.input.mem.obj),
                                  direct_call.input.t,
                                  FactorFor(RawNorm(direct_call.input)))

\* A build at t = tau with the regime term in it.
C24_Witness ==
    /\ direct_call.op = "hamiltonian_operator"
    /\ direct_call.input.t = direct_call.input.params.tau
    /\ direct_call.output.assembled # WithoutRegime(direct_call.input)

\* Gradients at t >= tau of a loss that depends on tau, eta and gamma.
C24_GradientWitness ==
    /\ direct_call.op = "compute_gradients"
    /\ direct_call.input.loss_fn.kind = "regime"
    /\ FGe(direct_call.input.t, direct_call.input.mem.obj.tau)
    /\ direct_call.output.gradients.tau # FZero
    /\ direct_call.output.gradients.eta # direct_call.output.gradients.tau

\* ------------------------------------------------------------------------
\* Properties of get_optimal_timing
\* ------------------------------------------------------------------------

\* min(time_steps, 100)
SamplesStated(steps) == IF steps <= 100 THEN steps ELSE 100

\* The sample k (from 0) is the earliest of those with the least derivative.
EarliestLeast(ds, k) ==
    /\ \A j \in 1..Len(ds) : FLe(ds[k + 1], ds[j])
    /\ \A j \in 1..k : FLt(ds[k + 1], ds[j])

\* The call returned best_time from the derivatives ds of its samples.
TimingAsStated(steps, best_time, ds) ==
    /\ Len(ds) = SamplesStated(steps)
    /\ \E k \in 0..(Len(ds) - 1) :
          best_time = FMul(FInt(k), Dec(1, -2)) /\ EarliestLeast(ds, k)

TimingCalled == direct_call.op = "get_optimal_timing"

\* C25: a call of get_optimal_timing that returns has taken
\* min(time_steps, 100) samples, at the times k * 0.01; it returns the
\* earliest of the sample times whose derivative is the least; the
\* engine's current state and its history are as before the call.
C25_OptimalTiming ==
    (TimingCalled /\ ~direct_call.output.result.raised) =>
        /\ TimingAsStated(direct_call.input.engine.time_steps,
                          direct_call.output.result.best_time,
                          direct_call.output.result.derivatives)
        /\ direct_call.output.engine.quantum_state =
              direct_call.input.engine.quantum_state
        /\ direct_call.output.engine.state_history =
              direct_call.input.engine.state_history

\* A call on an engine of more than 100 time steps that returns a sample
\* after the first, whose derivative a later sample has too.
C25_Witness ==
    /\ TimingCalled
    /\ ~direct_call.output.result.raised
    /\ direct_call.input.engine.time_steps > 100
    /\ Len(direct_call.output.result.derivatives) = 100
    /\ direct_call.output.result.best_time # FZero
    /\ \E j \in 1..100 : \E k \in (j + 1)..100 :
          /\ direct_call.output.result.best_time = FMul(FInt(j - 1), Dec(1, -2))
          /\ direct_call.output.result.derivatives[k]
                = direct_call.output.result.derivatives[j]

====
